---------------------------- MODULE Spec2Model ----------------------------
(***************************************************************************)
(* A model of the risk engine (src/src/risk), the portfolio                *)
(* (src/src/portfolio) and the paper-trading execution engine              *)
(* (src/src/execution) of event-driven-trading-rs.                         *)
(*                                                                         *)
(* Decimal values are fixed-point integers: the integer n stands for the   *)
(* decimal n / Scale.  The source rounds with round_dp(8) (banker's        *)
(* rounding to 8 fractional digits); the model rounds the same way to      *)
(* DecimalPlaces fractional digits.  Products of two decimals are exact in *)
(* the source; the model keeps them exact by carrying them at Scale*Scale. *)
(*                                                                         *)
(* Wall-clock fields (created_at, updated_at, opened_at, timestamp) are    *)
(* not modelled: no modelled decision reads them.                          *)
(***************************************************************************)
EXTENDS Integers, Sequences, FiniteSets, TLC

(***************************************************************************)
(* Bounds of the model.                                                    *)
(***************************************************************************)
\* fractional digits kept by the fixed-point representation (8 in the source)
DecimalPlaces == 2
\* ExecutionEngine: orders that may be submitted (caps next_order_id)
MaxOrders == 2
\* RiskEngine driven directly: positions that may be opened over a run
MaxOpens == 2

Scale == 10 ^ DecimalPlaces

Symbols == {"BTCUSDT", "ETHUSDT"}

(***************************************************************************)
(* Inputs drawn by the operations (decimals, in units of 1/Scale).         *)
(***************************************************************************)
\* RiskEngine::new(account_balance, limits): main.rs uses 10000
InitialBalance == 100 * Scale
\* market prices fed to RiskEngine::update_price and exit prices fed to
\* record_trade_close; 0 is the invalid input
Prices == {0, 5 * Scale, 30 * Scale, 50 * Scale}
\* market prices fed to ExecutionEngine::update_price
EnginePrices == {0, 5 * Scale}
\* entry prices handed to execute / pre_trade_validate / record_trade_open
EntryPrices == {0, 10 * Scale}
\* stop-loss distances handed to execute: 0, 0.25, 0.75 and 20
StopDistances == {0, Scale \div 4, (3 * Scale) \div 4, 20 * Scale}
\* position sizes handed to the RiskEngine directly
Sizes == {0, 4 * Scale}
\* position sizes handed to pre_trade_validate directly: 6 makes the notional
\* exceed max_position_size
ValidateSizes == Sizes \cup {6 * Scale}
\* stop-loss distances handed to pre_trade_validate directly
ValidateStopDistances == {0, Scale \div 4}
\* stop-loss prices handed to record_trade_open directly
StopPrices == {0, 9 * Scale}
\* order quantities handed to submit_order and to replace_order
SubmitQuantities == {0, 3 * Scale}
ReplaceQuantities == {0, Scale}
\* order prices, an Option<Decimal>: <<>> is None, <<p>> is Some(p)
SubmitPrices == {<<10 * Scale>>}
ReplacePrices == {<<>>}
Signals == {"Buy", "Sell", "Hold"}
Sides == {"Long", "Short"}
\* the threads that share the bus, and the event types published on it
Threads == {"main", "worker"}
Tags == {"PriceUpdated", "RiskHalt"}
\* what a subscribed handler does: print the event, panic, or (the
\* PriceUpdated handler of main.rs) call ExecutionEngine::update_price
HandlerKinds == {"print", "panic"}
KillReasons == {"Manual halt"}

(***************************************************************************)
(* Decimal arithmetic.                                                     *)
(***************************************************************************)
\* n / d rounded to the nearest integer, ties to even (d > 0)
RoundDiv(n, d) ==
    LET q == n \div d
        r == n % d
    IN  IF 2 * r < d THEN q
        ELSE IF 2 * r > d THEN q + 1
        ELSE IF q % 2 = 0 THEN q ELSE q + 1

Abs(n) == IF n < 0 THEN -n ELSE n

Ok(v) == [kind |-> "Ok", value |-> v]
Err(k, m) == [kind |-> k, msg |-> m]
IsOk(r) == r.kind = "Ok"

\* TradingError's Display (thiserror #[error("...: {0}")])
ErrToString(e) ==
    CASE e.kind = "Validation" -> "Validation error: " \o e.msg
      [] e.kind = "Risk"       -> "Risk management error: " \o e.msg
      [] e.kind = "Execution"  -> "Execution error: " \o e.msg
      [] e.kind = "MarketData" -> "Market data error: " \o e.msg
      [] e.kind = "Network"    -> "Network error: " \o e.msg
      [] OTHER                 -> e.msg

VARIABLES
    \* RiskEngine
    account_balance, kill_switch, kill_switch_reason, daily_loss, peak_equity,
    \* Portfolio
    positions, realized_pnl,
    \* ExecutionEngine
    orders, fills, trades, next_order_id,
    \* what the last call was, what it returned, what it published on the bus
    last_call, result, published,
    \* number of positions opened so far
    n_opened,
    \* EventBus: the handlers per event type and the counters
    subscribers, event_counts,
    \* the Mutex around subscribers: its holder and whether it is poisoned
    subs_lock,
    \* per thread: where it is inside a bus call
    threads,
    \* the publish calls in the order of their counter increments, in the order
    \* in which they took the subscribers lock, and the number that returned
    bumped, dispatched, returned,
    \* PriceMonitor: per symbol the last accepted (timestamp, price)
    last_seen,
    \* PortfolioLimits: the limit on open positions the engine was built with
    max_open_positions,
    \* main.rs: the Mutex around the ExecutionEngine, its holder and whether
    \* it is poisoned
    execution_engine_ref,
    \* MeanReversionStrategy: the price window
    prices

riskVars == <<account_balance, kill_switch, kill_switch_reason, daily_loss,
              peak_equity, positions, realized_pnl>>
execVars == <<orders, fills, trades, next_order_id>>
vars == <<account_balance, kill_switch, kill_switch_reason, daily_loss,
          peak_equity, positions, realized_pnl, orders, fills, trades,
          next_order_id, last_call, result, published, n_opened,
          subscribers, event_counts, subs_lock, threads, bumped, dispatched,
          returned, last_seen, max_open_positions, execution_engine_ref, prices>>
engineVars == <<account_balance, kill_switch, kill_switch_reason, daily_loss,
                peak_equity, positions, realized_pnl, orders, fills, trades,
                next_order_id, last_call, result, published, n_opened>>
busVars == <<subscribers, event_counts, subs_lock, threads, bumped, dispatched,
             returned>>
marketVars == <<last_seen>>
limitVars == <<max_open_positions>>
wiringVars == <<execution_engine_ref>>
strategyVars == <<prices>>

(***************************************************************************)
(* PortfolioLimits (src/src/risk/portfolio_limits.rs).                     *)
(***************************************************************************)
max_daily_loss == 10 * Scale
max_position_size == 50 * Scale
max_leverage == 1 * Scale
\* the value of max_open_positions in the reference construction
MaxOpenPositions == 1

\* PortfolioLimits::new accepts the limits
LimitsValid ==
    /\ max_daily_loss > 0
    /\ max_position_size > 0
    /\ max_leverage >= Scale
    /\ max_open_positions # 0

\* the limit test with <= for <
CanOpenNewPositionOffByOne(current_open_positions) ==
    current_open_positions <= max_open_positions

CanOpenNewPosition(current_open_positions) ==
    current_open_positions < max_open_positions

\* notional is carried at Scale * Scale
IsPositionTooLarge(notional) ==
    IF notional <= 0 THEN Err("Validation", "Position size must be positive")
    ELSE Ok(notional > max_position_size * Scale)

\* is_leverage_exceeded comparing against twice the limit
IsLeverageExceededDoubled(used_leverage) ==
    IF used_leverage <= 0 THEN Err("Validation", "Leverage must be positive")
    ELSE Ok(used_leverage > 2 * max_leverage)

IsLeverageExceeded(used_leverage) ==
    IF used_leverage <= 0 THEN Err("Validation", "Leverage must be positive")
    ELSE Ok(used_leverage > max_leverage)

IsDailyLossExceeded(current_daily_loss) ==
    IF current_daily_loss < 0 THEN Err("Validation", "Daily loss cannot be negative")
    ELSE Ok(Abs(current_daily_loss) > max_daily_loss)

(***************************************************************************)
(* Position (src/src/portfolio/position.rs).                               *)
(***************************************************************************)
PositionNew(side, entry_price, size, stop_loss) ==
    IF entry_price <= 0 \/ size <= 0 \/ stop_loss <= 0
    THEN Err("Validation", "Entry price, size, and stop loss must be positive")
    ELSE Ok([side |-> side, entry_price |-> entry_price, size |-> size,
             stop_loss |-> stop_loss, last_price |-> entry_price])

\* carried at Scale * Scale (the product is exact)
NotionalValue(p) == p.entry_price * p.size

PositionUnrealizedPnl(p) ==
    LET diff == IF p.side = "Long" THEN p.last_price - p.entry_price
                ELSE p.entry_price - p.last_price
    IN  RoundDiv(diff * p.size, Scale)

(***************************************************************************)
(* Portfolio (src/src/portfolio/portfolio.rs).  positions is the HashMap:  *)
(* a function from the symbols that have an open position.                 *)
(***************************************************************************)
OpenPositionsOf(pos) == Cardinality(DOMAIN pos)

\* Portfolio::exposure, carried at Scale * Scale
RECURSIVE ExposureOf(_)
ExposureOf(pos) ==
    IF DOMAIN pos = {} THEN 0
    ELSE LET s == CHOOSE x \in DOMAIN pos : TRUE
         IN  NotionalValue(pos[s]) + ExposureOf([x \in (DOMAIN pos) \ {s} |-> pos[x]])

\* Portfolio::unrealized_pnl
RECURSIVE UnrealizedPnlOf(_)
UnrealizedPnlOf(pos) ==
    IF DOMAIN pos = {} THEN 0
    ELSE LET s == CHOOSE x \in DOMAIN pos : TRUE
         IN  PositionUnrealizedPnl(pos[s])
               + UnrealizedPnlOf([x \in (DOMAIN pos) \ {s} |-> pos[x]])

MapPut(pos, s, p) == [x \in (DOMAIN pos) \cup {s} |-> IF x = s THEN p ELSE pos[x]]
MapRemove(pos, s) == [x \in (DOMAIN pos) \ {s} |-> pos[x]]

\* open_position without its contains_key guard
AlreadyOpenUnchecked(pos, symbol) == FALSE

\* the contains_key guard of open_position
AlreadyOpen(pos, symbol) == symbol \in DOMAIN pos

\* Portfolio::open_position: the result and the positions after the call
PortfolioOpenPosition(pos, symbol, side, entry_price, size, stop_loss) ==
    IF AlreadyOpen(pos, symbol)
    THEN [res |-> Err("Risk", "Position already open for " \o symbol), positions |-> pos]
    ELSE LET p == PositionNew(side, entry_price, size, stop_loss)
         IN  IF ~IsOk(p) THEN [res |-> p, positions |-> pos]
             ELSE [res |-> Ok("unit"), positions |-> MapPut(pos, symbol, p.value)]

\* close_position validating the exit price before it removes the entry
PortfolioClosePositionValidated(pos, rpnl, symbol, exit_price) ==
    IF symbol \notin DOMAIN pos
    THEN [res |-> Err("Risk", "No open position for " \o symbol),
          positions |-> pos, realized_pnl |-> rpnl]
    ELSE IF exit_price <= 0
    THEN [res |-> Err("Validation", "Price must be positive"),
          positions |-> pos, realized_pnl |-> rpnl]
    ELSE LET pnl == PositionUnrealizedPnl([pos[symbol] EXCEPT !.last_price = exit_price])
         IN  [res |-> Ok(pnl), positions |-> MapRemove(pos, symbol),
              realized_pnl |-> rpnl + pnl]

\* Portfolio::close_position: the entry is removed before the exit price is
\* validated, so a rejected exit price still removes it
PortfolioClosePosition(pos, rpnl, symbol, exit_price) ==
    IF symbol \notin DOMAIN pos
    THEN [res |-> Err("Risk", "No open position for " \o symbol),
          positions |-> pos, realized_pnl |-> rpnl]
    ELSE IF exit_price <= 0
    THEN [res |-> Err("Validation", "Price must be positive"),
          positions |-> MapRemove(pos, symbol), realized_pnl |-> rpnl]
    ELSE LET pnl == PositionUnrealizedPnl([pos[symbol] EXCEPT !.last_price = exit_price])
         IN  [res |-> Ok(pnl), positions |-> MapRemove(pos, symbol),
              realized_pnl |-> rpnl + pnl]

\* Portfolio::update_price
PortfolioUpdatePrice(pos, symbol, price) ==
    IF symbol \notin DOMAIN pos THEN [res |-> Ok("unit"), positions |-> pos]
    ELSE IF price <= 0
    THEN [res |-> Err("Validation", "Price must be positive"), positions |-> pos]
    ELSE [res |-> Ok("unit"), positions |-> [pos EXCEPT ![symbol].last_price = price]]

\* Portfolio::close_all_at_last drains the map in the HashMap's key order,
\* which is unspecified: every order of the symbols is a possible result
Perms(S) ==
    {q \in [1..Cardinality(S) -> S] : \A i, j \in 1..Cardinality(S) : i # j => q[i] # q[j]}

CloseAllResults(pos, order) ==
    [i \in 1..Len(order) |->
        [symbol |-> order[i], exit_price |-> pos[order[i]].last_price,
         pnl |-> PositionUnrealizedPnl(pos[order[i]])]]

RECURSIVE SumPnl(_)
SumPnl(results) ==
    IF results = <<>> THEN 0 ELSE Head(results).pnl + SumPnl(Tail(results))

EmptyMap == [x \in {} |-> x]

(***************************************************************************)
(* RiskEngine (src/src/risk/engine.rs).                                    *)
(***************************************************************************)
\* RiskEngine::equity
EquityOf(bal, pos) == bal + UnrealizedPnlOf(pos)

Equity == EquityOf(account_balance, positions)

\* update_risk_state refreshing peak_equity only
UpdateRiskStatePeakOnly(bal, pos, peak) ==
    LET equity == EquityOf(bal, pos)
    IN  [peak_equity |-> IF equity > peak THEN equity ELSE peak,
         daily_loss |-> daily_loss]

\* RiskEngine::update_risk_state: the refreshed peak_equity and daily_loss
UpdateRiskState(bal, pos, peak) ==
    LET equity == EquityOf(bal, pos)
        loss == Abs(bal - equity)
    IN  [peak_equity |-> IF equity > peak THEN equity ELSE peak,
         daily_loss |-> IF equity < bal THEN loss ELSE 0]

\* the fields pre_trade_validate may write, as they are before the call
RiskFields ==
    [kill_switch |-> kill_switch, kill_switch_reason |-> kill_switch_reason,
     peak_equity |-> peak_equity, daily_loss |-> daily_loss]

\* a failing check that returns its error without activating the kill-switch
NotActivated(f, reason) == f

\* activate_kill_switch storing a fixed reason instead of the one it is given
ActivatedFixedReason(f, reason) ==
    [f EXCEPT !.kill_switch = TRUE, !.kill_switch_reason = "Risk limit breached"]

\* RiskEngine::activate_kill_switch applied to the fields f
Activated(f, reason) ==
    [f EXCEPT !.kill_switch = TRUE, !.kill_switch_reason = reason]

\* pre_trade_validate without its kill-switch test
KillSwitchIgnored(ks) == FALSE

\* pre_trade_validate, first check: the kill-switch test
KillSwitchBlocks(ks) == ks

\* RiskEngine::pre_trade_validate on the current state: the check that decided
\* the call, the result, and the fields after the call
PreTradeValidate(entry_price, position_size, stop_loss_distance) ==
    LET f == RiskFields
        notional == entry_price * position_size
        projected_exposure == ExposureOf(positions) + notional
        equity == Equity
        used_leverage == RoundDiv(projected_exposure, equity)
        refreshed == UpdateRiskState(account_balance, positions, peak_equity)
        g == [f EXCEPT !.peak_equity = refreshed.peak_equity,
                       !.daily_loss = refreshed.daily_loss]
    IN  IF KillSwitchBlocks(kill_switch)
        THEN [check |-> "kill_switch",
              res |-> Err("Risk", "Kill-switch active; trading halted"), fields |-> f]
        ELSE IF entry_price <= 0 \/ position_size <= 0 \/ stop_loss_distance <= 0
        THEN [check |-> "inputs",
              res |-> Err("Validation",
                  "Entry price, position size, and stop loss distance must be positive"),
              fields |-> f]
        ELSE IF ~CanOpenNewPosition(OpenPositionsOf(positions))
        THEN [check |-> "max_open_positions",
              res |-> Err("Risk", "Max open positions reached"),
              fields |-> Activated(f, "Max open positions reached")]
        ELSE IF ~IsOk(IsPositionTooLarge(notional))
        THEN [check |-> "notional_invalid", res |-> IsPositionTooLarge(notional),
              fields |-> f]
        ELSE IF IsPositionTooLarge(notional).value
        THEN [check |-> "notional",
              res |-> Err("Risk", "Position notional exceeds limit"), fields |-> f]
        ELSE IF equity <= 0
        THEN [check |-> "equity", res |-> Err("Risk", "Equity depleted"),
              fields |-> Activated(f, "Equity depleted")]
        ELSE IF ~IsOk(IsLeverageExceeded(used_leverage))
        THEN [check |-> "leverage_invalid", res |-> IsLeverageExceeded(used_leverage),
              fields |-> f]
        ELSE IF IsLeverageExceeded(used_leverage).value
        THEN [check |-> "leverage", res |-> Err("Risk", "Leverage exceeds limit"),
              fields |-> f]
        ELSE IF ~IsOk(IsDailyLossExceeded(g.daily_loss))
        THEN [check |-> "daily_loss_invalid", res |-> IsDailyLossExceeded(g.daily_loss),
              fields |-> g]
        ELSE IF IsDailyLossExceeded(g.daily_loss).value
        THEN [check |-> "daily_loss", res |-> Err("Risk", "Daily loss limit exceeded"),
              fields |-> Activated(g, "Daily loss limit exceeded")]
        ELSE [check |-> "ok", res |-> Ok("unit"), fields |-> g]

\* the primed RiskEngine fields take the values of f
SetRiskFields(f) ==
    /\ kill_switch' = f.kill_switch
    /\ kill_switch_reason' = f.kill_switch_reason
    /\ peak_equity' = f.peak_equity
    /\ daily_loss' = f.daily_loss

\* RiskEngine::record_trade_open delegates to Portfolio::open_position
RecordTradeOpen(pos, symbol, side, entry_price, size, stop_loss) ==
    PortfolioOpenPosition(pos, symbol, side, entry_price, size, stop_loss)

(***************************************************************************)
(* The RiskEngine's public methods, called directly.                       *)
(***************************************************************************)
\* the record of a call: the operation, the symbol it was given ("" if none) and
\* the check that decided the pre_trade_validate it ran ("none" if it ran none)
Call(op, symbol, pre_trade) == [op |-> op, symbol |-> symbol, pre_trade |-> pre_trade]

NoExec == UNCHANGED <<orders, fills, trades, next_order_id, published, busVars, marketVars, limitVars, wiringVars, strategyVars>>

RiskActivateKillSwitch(reason) ==
    /\ kill_switch' = TRUE
    /\ kill_switch_reason' = reason
    /\ last_call' = Call("activate_kill_switch", "", "none")
    /\ result' = Ok("unit")
    /\ UNCHANGED <<account_balance, daily_loss, peak_equity, positions, realized_pnl,
                   n_opened>>
    /\ NoExec

RiskDeactivateKillSwitch ==
    /\ kill_switch' = FALSE
    /\ kill_switch_reason' = "None"
    /\ last_call' = Call("deactivate_kill_switch", "", "none")
    /\ result' = Ok("unit")
    /\ UNCHANGED <<account_balance, daily_loss, peak_equity, positions, realized_pnl,
                   n_opened>>
    /\ NoExec

RiskUpdatePrice(symbol, price) ==
    LET up == PortfolioUpdatePrice(positions, symbol, price)
        refreshed == UpdateRiskState(account_balance, up.positions, peak_equity)
    IN  /\ last_call' = Call("update_price", symbol, "none")
        /\ result' = up.res
        /\ positions' = up.positions
        /\ IF IsOk(up.res)
           THEN peak_equity' = refreshed.peak_equity /\ daily_loss' = refreshed.daily_loss
           ELSE UNCHANGED <<peak_equity, daily_loss>>
        /\ UNCHANGED <<account_balance, kill_switch, kill_switch_reason, realized_pnl,
                       n_opened>>
        /\ NoExec

RiskPreTradeValidate(entry_price, position_size, stop_loss_distance) ==
    \E pv \in {PreTradeValidate(entry_price, position_size, stop_loss_distance)} :
        /\ last_call' = Call("pre_trade_validate", "", pv.check)
        /\ result' = pv.res
        /\ SetRiskFields(pv.fields)
        /\ UNCHANGED <<account_balance, positions, realized_pnl, n_opened>>
        /\ NoExec

RiskRecordTradeOpen(symbol, side, entry_price, size, stop_loss) ==
    LET op == RecordTradeOpen(positions, symbol, side, entry_price, size, stop_loss)
    IN  /\ IsOk(op.res) => n_opened < MaxOpens
        /\ last_call' = Call("record_trade_open", symbol, "none")
        /\ result' = op.res
        /\ positions' = op.positions
        /\ n_opened' = IF IsOk(op.res) THEN n_opened + 1 ELSE n_opened
        /\ UNCHANGED <<account_balance, kill_switch, kill_switch_reason, daily_loss,
                       peak_equity, realized_pnl>>
        /\ NoExec

RiskRecordTradeClose(symbol, exit_price) ==
    LET cl == PortfolioClosePosition(positions, realized_pnl, symbol, exit_price)
        bal == IF IsOk(cl.res) THEN account_balance + cl.res.value ELSE account_balance
        refreshed == UpdateRiskState(bal, cl.positions, peak_equity)
    IN  /\ last_call' = Call("record_trade_close", symbol, "none")
        /\ result' = cl.res
        /\ positions' = cl.positions
        /\ realized_pnl' = cl.realized_pnl
        /\ account_balance' = bal
        /\ IF IsOk(cl.res)
           THEN peak_equity' = refreshed.peak_equity /\ daily_loss' = refreshed.daily_loss
           ELSE UNCHANGED <<peak_equity, daily_loss>>
        /\ UNCHANGED <<kill_switch, kill_switch_reason, n_opened>>
        /\ NoExec

\* RiskEngine::liquidate_all: the list returned and the state after the call
LiquidateAll(order) ==
    LET results == CloseAllResults(positions, order)
        bal == account_balance + SumPnl(results)
        refreshed == UpdateRiskState(bal, EmptyMap, peak_equity)
    IN  [results |-> results, account_balance |-> bal,
         realized_pnl |-> realized_pnl + SumPnl(results),
         peak_equity |-> refreshed.peak_equity, daily_loss |-> refreshed.daily_loss]

RiskLiquidateAll ==
    \E order \in Perms(DOMAIN positions) :
        LET la == LiquidateAll(order)
        IN  /\ last_call' = Call("liquidate_all", "", "none")
            /\ result' = Ok(la.results)
            /\ positions' = EmptyMap
            /\ account_balance' = la.account_balance
            /\ realized_pnl' = la.realized_pnl
            /\ peak_equity' = la.peak_equity
            /\ daily_loss' = la.daily_loss
            /\ UNCHANGED <<kill_switch, kill_switch_reason, n_opened>>
            /\ NoExec

\* EventBus::new, with no thread inside a bus call
BusNew ==
    /\ subscribers = [T \in Tags |-> <<>>]
    /\ event_counts = [T \in Tags |-> 0]
    /\ subs_lock = [holder |-> "none", poisoned |-> FALSE]
    /\ threads = [t \in Threads |->
                    [pc |-> "idle", tag |-> "", idx |-> 0, invoked |-> <<>>, calls |-> 0]]
    /\ bumped = <<>>
    /\ dispatched = <<>>
    /\ returned = [T \in Tags |-> 0]

\* PriceMonitor::new: nothing seen yet
MonitorNew == last_seen = EmptyMap

\* main.rs: Arc::new(Mutex::new(..)) around the engine, held by no thread
EngineRefNew == execution_engine_ref = [holder |-> "none", poisoned |-> FALSE]

\* MeanReversionStrategy::new with valid parameters: Vec::with_capacity is empty
StrategyNew == prices = <<>>

\* ExecutionEngine::new
EngineNewLimits(max_open) ==
    /\ max_open_positions = max_open
    /\ LimitsValid
    /\ InitialBalance > 0
    /\ account_balance = InitialBalance
    /\ positions = EmptyMap
    /\ realized_pnl = 0
    /\ kill_switch = FALSE
    /\ kill_switch_reason = "None"
    /\ daily_loss = 0
    /\ peak_equity = InitialBalance
    /\ orders = EmptyMap
    /\ fills = <<>>
    /\ trades = <<>>
    /\ next_order_id = 1
    /\ last_call = Call("new", "", "none")
    /\ result = Ok("unit")
    /\ published = <<>>
    /\ n_opened = 0

EngineNew == EngineNewLimits(MaxOpenPositions)

Init == EngineNew /\ BusNew /\ MonitorNew /\ EngineRefNew /\ StrategyNew

RiskNext ==
    \/ \E reason \in KillReasons : RiskActivateKillSwitch(reason)
    \/ RiskDeactivateKillSwitch
    \/ \E s \in Symbols, p \in Prices : RiskUpdatePrice(s, p)
    \/ \E e \in EntryPrices, z \in ValidateSizes, d \in ValidateStopDistances :
          RiskPreTradeValidate(e, z, d)
    \/ \E s \in Symbols, side \in Sides, e \in EntryPrices, z \in Sizes, sl \in StopPrices :
          RiskRecordTradeOpen(s, side, e, z, sl)
    \/ \E s \in Symbols, p \in Prices : RiskRecordTradeClose(s, p)
    \/ RiskLiquidateAll

RiskSpec == Init /\ [][RiskNext]_vars

(***************************************************************************)
(* PositionSizer and StopLossManager (src/src/risk).                       *)
(***************************************************************************)
\* PositionSizer::calculate: balance * (risk% / 100) / distance, round_dp(8)
PositionSizerCalculate(balance, risk_percentage, stop_loss_distance) ==
    IF balance <= 0 THEN Err("Validation", "Account balance must be positive")
    ELSE IF risk_percentage <= 0 \/ risk_percentage > 100
    THEN Err("Validation", "Risk percentage must be between 0 and 100")
    ELSE IF stop_loss_distance <= 0
    THEN Err("Validation", "Stop loss distance must be positive")
    ELSE Ok(RoundDiv(balance * risk_percentage * Scale, 100 * stop_loss_distance))

\* StopLossManager::calculate_stop_loss
CalculateStopLoss(entry_price, stop_loss_distance, is_long) ==
    LET stop_loss == IF is_long THEN entry_price - stop_loss_distance
                     ELSE entry_price + stop_loss_distance
    IN  IF entry_price <= 0 THEN Err("Validation", "Entry price must be positive")
        ELSE IF stop_loss_distance <= 0
        THEN Err("Validation", "Stop loss distance must be positive")
        ELSE IF stop_loss <= 0 THEN Err("Validation", "Stop loss price would be invalid")
        ELSE Ok(stop_loss)

(***************************************************************************)
(* FillSimulator (src/src/execution/fill.rs).                              *)
(***************************************************************************)
\* fee = round_dp(8) of price * quantity * 0.0005
FillOf(order_id, symbol, price, quantity) ==
    [order_id |-> order_id, symbol |-> symbol, price |-> price, quantity |-> quantity,
     fee |-> RoundDiv(price * quantity * 5, 10000 * Scale)]

\* the simulator with the second fill not reduced by the first
FillSimulateNoSubtract(order_id, symbol, price, quantity) ==
    LET half == RoundDiv(quantity, 2)
        first_qty == IF quantity > Scale THEN half ELSE quantity
        second_qty == IF quantity > Scale THEN quantity ELSE 0
    IN  (IF first_qty > 0 THEN <<FillOf(order_id, symbol, price, first_qty)>> ELSE <<>>)
        \o (IF second_qty > 0 THEN <<FillOf(order_id, symbol, price, second_qty)>>
            ELSE <<>>)

FillSimulate(order_id, symbol, price, quantity) ==
    LET half == RoundDiv(quantity, 2)
        first_qty == IF quantity > Scale THEN half ELSE quantity
        second_qty == IF quantity > Scale THEN quantity - half ELSE 0
    IN  (IF first_qty > 0 THEN <<FillOf(order_id, symbol, price, first_qty)>> ELSE <<>>)
        \o (IF second_qty > 0 THEN <<FillOf(order_id, symbol, price, second_qty)>>
            ELSE <<>>)

(***************************************************************************)
(* Events published on the bus (src/src/engine/event.rs).                  *)
(***************************************************************************)
EvRiskHalt(reason) == [type |-> "RiskHalt", reason |-> reason]
EvError(msg) == [type |-> "Error", msg |-> msg]
EvOrderSubmitted(order_id, symbol, side, quantity, price) ==
    [type |-> "OrderSubmitted", order_id |-> order_id, symbol |-> symbol,
     side |-> side, quantity |-> quantity, price |-> price]
EvOrderFilled(order_id, symbol, filled_qty, price) ==
    [type |-> "OrderFilled", order_id |-> order_id, symbol |-> symbol,
     filled_qty |-> filled_qty, price |-> price]
EvOrderCancelled(order_id, symbol) ==
    [type |-> "OrderCancelled", order_id |-> order_id, symbol |-> symbol]
EvTradeExecuted(symbol, signal, entry_price, position_size, stop_loss) ==
    [type |-> "TradeExecuted", symbol |-> symbol, signal |-> signal,
     entry_price |-> entry_price, position_size |-> position_size,
     stop_loss |-> stop_loss]
EvTradeClosed(symbol, exit_price, pnl) ==
    [type |-> "TradeClosed", symbol |-> symbol, exit_price |-> exit_price, pnl |-> pnl]

(***************************************************************************)
(* ExecutionEngine (src/src/execution/engine.rs).                          *)
(***************************************************************************)
\* submit_order storing the order as PartiallyFilled
OrderNewPartiallyFilled(symbol, side, order_type, tif, quantity, price) ==
    [symbol |-> symbol, side |-> side, order_type |-> order_type, tif |-> tif,
     quantity |-> quantity, price |-> price, filled_quantity |-> 0,
     status |-> "PartiallyFilled"]

\* submit_order's Order
OrderNew(symbol, side, order_type, tif, quantity, price) ==
    [symbol |-> symbol, side |-> side, order_type |-> order_type, tif |-> tif,
     quantity |-> quantity, price |-> price, filled_quantity |-> 0, status |-> "New"]

\* submit_order maps the order side to the signal carried by OrderSubmitted
SideSignal(side) == IF side = "Buy" THEN "Buy" ELSE "Sell"

\* cancel_order refusing only a Filled order
CancelBlockedFilledOnly(status) == status = "Filled"

\* the guards of cancel_order and replace_order on the order's status
CancelBlocked(status) == status \in {"Filled", "Cancelled"}

\* replace_order refusing only a Filled order
ReplaceBlockedFilledOnly(status) == status = "Filled"

ReplaceBlocked(status) == status \in {"Filled", "Cancelled"}

\* process_fills with filled_qty assigned, not accumulated
FilledQtyLastOnly(fs) == IF fs = <<>> THEN 0 ELSE fs[Len(fs)].quantity

\* process_fills: filled_qty accumulated over the fills
RECURSIVE FilledQty(_)
FilledQty(fs) == IF fs = <<>> THEN 0 ELSE Head(fs).quantity + FilledQty(Tail(fs))

\* the status test with > for >=
StatusAfterFillsStrict(filled_quantity, quantity) ==
    IF filled_quantity > quantity THEN "Filled" ELSE "PartiallyFilled"

\* process_fills: the status written after the fills
StatusAfterFills(filled_quantity, quantity) ==
    IF filled_quantity >= quantity THEN "Filled" ELSE "PartiallyFilled"

\* process_fills publishing no OrderFilled
FillEventsNone(order_id, fs) == <<>>

\* process_fills: one OrderFilled per fill, in order
FillEvents(order_id, fs) ==
    [i \in 1..Len(fs) |-> EvOrderFilled(order_id, fs[i].symbol, fs[i].quantity, fs[i].price)]

\* execute stopping only on a Validation failure of the pre-trade validation
PreTradePassedUnlessValidation(pv) == pv.res.kind # "Validation"

\* execute: whether the pre-trade validation let the trade through
PreTradePassed(pv) == IsOk(pv.res)

\* the state execute starts from, as a record
Unchanged(res, pre_trade) ==
    [result |-> res, pre_trade |-> pre_trade, published |-> <<>>,
     fields |-> RiskFields, positions |-> positions, orders |-> orders,
     fills |-> fills, trades |-> trades, next_order_id |-> next_order_id,
     opened |-> 0]

\* execute, update_price: no RiskHalt published for an active kill-switch
HaltEventsNone(ks, reason) == <<>>

\* execute, update_price: RiskHalt is published when the kill-switch is active
\* and carries a reason
HaltEvents(ks, reason) ==
    IF ks /\ reason # "None" THEN <<EvRiskHalt(reason)>> ELSE <<>>

\* the failure branch of execute returning the bare message of the RiskEngine
PreTradeFailedBareMessage(pv) ==
    [Unchanged(Err("Execution", pv.res.msg), pv.check) EXCEPT
        !.fields = pv.fields,
        !.published = HaltEvents(pv.fields.kill_switch, pv.fields.kill_switch_reason)
                      \o <<EvError(ErrToString(pv.res))>>]

\* the failure branch of execute publishing RiskHalt only when this call
\* tripped the kill-switch, not when it found it already active
PreTradeFailedHaltOnTripOnly(pv) ==
    [Unchanged(Err("Execution", ErrToString(pv.res)), pv.check) EXCEPT
        !.fields = pv.fields,
        !.published = (IF pv.check = "kill_switch" THEN <<>>
                       ELSE HaltEvents(pv.fields.kill_switch,
                                       pv.fields.kill_switch_reason))
                      \o <<EvError(ErrToString(pv.res))>>]

\* execute when pre_trade_validate fails: RiskHalt if the kill-switch is now
\* active, then Error, then the Execution error
PreTradeFailed(pv) ==
    [Unchanged(Err("Execution", ErrToString(pv.res)), pv.check) EXCEPT
        !.fields = pv.fields,
        !.published = HaltEvents(pv.fields.kill_switch, pv.fields.kill_switch_reason)
                      \o <<EvError(ErrToString(pv.res))>>]

\* ExecutionEngine::execute from submit_order on (the validation passed and
\* the stop loss is computed): submit_order, then process_fills
SubmitAndFill(symbol, signal, entry_price, position_size, stop_loss, pv) ==
    LET side == IF signal = "Buy" THEN "Long" ELSE "Short"
        order_side == IF signal = "Buy" THEN "Buy" ELSE "Sell"
        order_id == next_order_id
        order == OrderNew(symbol, order_side, "Market", "Ioc", position_size,
                          <<entry_price>>)
        submitted == EvOrderSubmitted(order_id, symbol, SideSignal(order_side),
                                      position_size, <<entry_price>>)
        new_fills == FillSimulate(order_id, order.symbol, entry_price, order.quantity)
        filled_qty == FilledQty(new_fills)
        filled_quantity == order.filled_quantity + filled_qty
        filled_order == [order EXCEPT !.filled_quantity = filled_quantity,
                           !.status = StatusAfterFills(filled_quantity, order.quantity)]
        trade == [symbol |-> symbol, signal |-> signal, entry_price |-> entry_price,
                  position_size |-> filled_qty, stop_loss |-> stop_loss]
        open == RecordTradeOpen(positions, symbol, side, entry_price, filled_qty, stop_loss)
        base == [Unchanged(Ok("None"), pv.check) EXCEPT
                    !.fields = pv.fields,
                    !.orders = MapPut(orders, order_id, filled_order),
                    !.next_order_id = next_order_id + 1,
                    !.fills = fills \o new_fills,
                    !.published = <<submitted>> \o FillEvents(order_id, new_fills)]
    IN  IF filled_qty > 0
        THEN IF IsOk(open.res)
             THEN [base EXCEPT
                     !.result = Ok(trade),
                     !.trades = Append(trades, trade),
                     !.positions = open.positions,
                     !.opened = 1,
                     !.published = base.published \o
                         <<EvTradeExecuted(symbol, signal, entry_price, filled_qty,
                                           stop_loss)>>]
             ELSE [base EXCEPT !.result = open.res, !.trades = Append(trades, trade)]
        ELSE base

\* ExecutionEngine::execute: what the call returns, publishes and writes
ExecuteOutcome(symbol, signal, entry_price, stop_loss_distance) ==
    LET sizing == PositionSizerCalculate(account_balance, 2, stop_loss_distance)
        position_size == sizing.value
        pv == PreTradeValidate(entry_price, position_size, stop_loss_distance)
        stop == CalculateStopLoss(entry_price, stop_loss_distance, signal = "Buy")
    IN  IF signal = "Hold" THEN Unchanged(Ok("None"), "none")
        ELSE IF ~IsOk(sizing) THEN Unchanged(sizing, "none")
        ELSE IF ~PreTradePassed(pv) THEN PreTradeFailed(pv)
        ELSE IF ~IsOk(stop)
        THEN [Unchanged(stop, pv.check) EXCEPT !.fields = pv.fields]
        ELSE SubmitAndFill(symbol, signal, entry_price, position_size, stop.value, pv)

EngineExecute(symbol, signal, entry_price, stop_loss_distance) ==
    \E out \in {ExecuteOutcome(symbol, signal, entry_price, stop_loss_distance)} :
        /\ out.next_order_id # next_order_id => next_order_id <= MaxOrders
        /\ last_call' = Call("execute", symbol, out.pre_trade)
        /\ result' = out.result
        /\ published' = out.published
        /\ SetRiskFields(out.fields)
        /\ positions' = out.positions
        /\ orders' = out.orders
        /\ fills' = out.fills
        /\ trades' = out.trades
        /\ next_order_id' = out.next_order_id
        /\ n_opened' = n_opened + out.opened
        /\ UNCHANGED <<account_balance, realized_pnl>>

\* ExecutionEngine::execute called on the engine directly
Execute(symbol, signal, entry_price, stop_loss_distance) ==
    /\ EngineExecute(symbol, signal, entry_price, stop_loss_distance)
    /\ UNCHANGED <<busVars, marketVars, limitVars, wiringVars, strategyVars>>

SubmitOrder(symbol, side, order_type, tif, quantity, price) ==
    /\ next_order_id <= MaxOrders
    /\ last_call' = Call("submit_order", symbol, "none")
    /\ IF quantity <= 0
       THEN /\ result' = Err("Validation", "Order quantity must be positive")
            /\ published' = <<>>
            /\ UNCHANGED <<orders, next_order_id>>
       ELSE /\ result' = Ok(next_order_id)
            /\ orders' = MapPut(orders, next_order_id,
                                OrderNew(symbol, side, order_type, tif, quantity, price))
            /\ next_order_id' = next_order_id + 1
            /\ published' = <<EvOrderSubmitted(next_order_id, symbol, SideSignal(side),
                                               quantity, price)>>
    /\ UNCHANGED <<riskVars, fills, trades, n_opened, busVars, marketVars, limitVars, wiringVars, strategyVars>>

CancelOrder(order_id) ==
    /\ last_call' = Call("cancel_order", "", "none")
    /\ IF order_id \notin DOMAIN orders
       THEN /\ result' = Err("Execution", "Order not found")
            /\ published' = <<>>
            /\ UNCHANGED orders
       ELSE IF CancelBlocked(orders[order_id].status)
       THEN /\ result' = Err("Execution", "Order already closed")
            /\ published' = <<>>
            /\ UNCHANGED orders
       ELSE /\ result' = Ok("unit")
            /\ orders' = [orders EXCEPT ![order_id].status = "Cancelled"]
            /\ published' = <<EvOrderCancelled(order_id, orders[order_id].symbol)>>
    /\ UNCHANGED <<riskVars, fills, trades, next_order_id, n_opened, busVars, marketVars, limitVars, wiringVars, strategyVars>>

ReplaceOrder(order_id, new_qty, new_price) ==
    /\ last_call' = Call("replace_order", "", "none")
    /\ published' = <<>>
    /\ IF order_id \notin DOMAIN orders
       THEN result' = Err("Execution", "Order not found") /\ UNCHANGED orders
       ELSE IF new_qty <= 0
       THEN result' = Err("Validation", "Order quantity must be positive")
            /\ UNCHANGED orders
       ELSE IF ReplaceBlocked(orders[order_id].status)
       THEN result' = Err("Execution", "Order already closed") /\ UNCHANGED orders
       ELSE /\ result' = Ok("unit")
            /\ orders' = [orders EXCEPT ![order_id].quantity = new_qty,
                                        ![order_id].price = new_price]
    /\ UNCHANGED <<riskVars, fills, trades, next_order_id, n_opened, busVars, marketVars, limitVars, wiringVars, strategyVars>>

\* liquidate_all publishing TradeClosed for all but the first entry
ClosedEventsSkipFirst(results) ==
    [i \in 1..(Len(results) - 1) |->
        EvTradeClosed(results[i + 1].symbol, results[i + 1].exit_price,
                      results[i + 1].pnl)]

\* ExecutionEngine::liquidate_all: one TradeClosed per entry returned
ClosedEvents(results) ==
    [i \in 1..Len(results) |->
        EvTradeClosed(results[i].symbol, results[i].exit_price, results[i].pnl)]

\* ExecutionEngine::update_price: what it does to the engine
EngineUpdatePrice(symbol, price) ==
    LET up == PortfolioUpdatePrice(positions, symbol, price)
        refreshed == UpdateRiskState(account_balance, up.positions, peak_equity)
    IN  /\ last_call' = Call("engine_update_price", symbol, "none")
        /\ UNCHANGED <<kill_switch, kill_switch_reason, orders, fills, trades,
                       next_order_id, n_opened>>
        /\ IF ~IsOk(up.res)
           THEN /\ result' = up.res
                /\ published' = <<>>
                /\ UNCHANGED <<positions, peak_equity, daily_loss, account_balance,
                               realized_pnl>>
           ELSE IF ~kill_switch
           THEN /\ result' = Ok("unit")
                /\ published' = <<>>
                /\ positions' = up.positions
                /\ peak_equity' = refreshed.peak_equity
                /\ daily_loss' = refreshed.daily_loss
                /\ UNCHANGED <<account_balance, realized_pnl>>
           ELSE \E order \in Perms(DOMAIN positions) :
                  LET results == CloseAllResults(up.positions, order)
                      bal == account_balance + SumPnl(results)
                      after == UpdateRiskState(bal, EmptyMap, refreshed.peak_equity)
                  IN  /\ result' = Ok("unit")
                      /\ published' =
                            HaltEvents(kill_switch, kill_switch_reason)
                            \o ClosedEvents(results)
                      /\ positions' = EmptyMap
                      /\ account_balance' = bal
                      /\ realized_pnl' = realized_pnl + SumPnl(results)
                      /\ peak_equity' = after.peak_equity
                      /\ daily_loss' = after.daily_loss

\* ExecutionEngine::update_price called directly
UpdatePrice(symbol, price) ==
    /\ EngineUpdatePrice(symbol, price)
    /\ UNCHANGED <<busVars, marketVars, limitVars, wiringVars, strategyVars>>

Next ==
    \/ \E s \in Symbols, sig \in Signals, e \in EntryPrices, d \in StopDistances :
          Execute(s, sig, e, d)
    \/ \E s \in Symbols, q \in SubmitQuantities, p \in SubmitPrices :
          SubmitOrder(s, "Buy", "Limit", "Gtc", q, p)
    \/ \E id \in 1..MaxOrders : CancelOrder(id)
    \/ \E id \in 1..MaxOrders, q \in ReplaceQuantities, p \in ReplacePrices :
          ReplaceOrder(id, q, p)
    \/ \E s \in Symbols, p \in EnginePrices : UpdatePrice(s, p)

Spec == Init /\ [][Next]_vars

\* the ExecutionEngine built with limits that leave room for one more open
\* position than the reference construction
InitRoom == EngineNewLimits(MaxOpenPositions + 1) /\ BusNew /\ MonitorNew /\ EngineRefNew /\ StrategyNew

SpecRoom == InitRoom /\ [][Next]_vars

(***************************************************************************)
(* EventBus (src/src/engine/bus.rs), shared by several threads.            *)
(* The engine specifications above see the bus as `published`, the events  *)
(* a call hands to publish; here each publish is followed lock by lock.    *)
(***************************************************************************)
\* publish calls per thread, subscribe calls in all
MaxCalls == 2
MaxSubs == 2

\* the number of handlers subscribed under the event types TS
RECURSIVE SubsCount(_)
SubsCount(TS) ==
    IF TS = {} THEN 0
    ELSE LET T == CHOOSE x \in TS : TRUE
         IN  Len(subscribers[T]) + SubsCount(TS \ {T})

\* the handlers under event_type, by id, in dispatch order
HandlerIds(event_type) ==
    [i \in 1..Len(subscribers[event_type]) |-> subscribers[event_type][i].id]

\* a publish call: the thread, its call number and the event type
CallOf(t) == [thread |-> t, call |-> threads[t].calls, tag |-> threads[t].tag]

\* EventBus::subscribe: lock subscribers (unwrap panics on a poisoned lock),
\* push the handler at the end of the list of event_type
Subscribe(t, event_type, kind) ==
    /\ threads[t].pc = "idle"
    /\ subs_lock.holder = "none"
    /\ SubsCount(Tags) < MaxSubs
    /\ IF subs_lock.poisoned
       THEN /\ threads' = [threads EXCEPT ![t].pc = "panicked"]
            /\ UNCHANGED subscribers
       ELSE /\ subscribers' = [subscribers EXCEPT ![event_type] =
                                 Append(@, [id |-> SubsCount(Tags) + 1, kind |-> kind])]
            /\ UNCHANGED threads
    /\ UNCHANGED <<event_counts, subs_lock, bumped, dispatched, returned, engineVars, marketVars, limitVars, wiringVars, strategyVars>>

\* EventBus::publish, lines 37-41: the counter of the event type is bumped
\* under the event_counts lock, which is released at once (no code can panic
\* while holding it, so it is never poisoned)
PublishCount(t, event_type) ==
    /\ threads[t].pc = "idle"
    /\ threads[t].calls < MaxCalls
    /\ event_counts' = [event_counts EXCEPT ![event_type] = @ + 1]
    /\ threads' = [threads EXCEPT ![t] = [pc |-> "counted", tag |-> event_type,
                                          idx |-> 0, invoked |-> <<>>,
                                          calls |-> @.calls + 1]]
    /\ bumped' = Append(bumped, [thread |-> t, call |-> threads[t].calls + 1,
                                 tag |-> event_type])
    /\ UNCHANGED <<subscribers, subs_lock, dispatched, returned, engineVars, marketVars, limitVars, wiringVars, strategyVars>>

\* EventBus::publish, line 42: subscribers.lock().unwrap() by a thread that
\* does not hold it: it waits for the lock, and panics if it is poisoned
PublishLock(t) ==
    /\ threads[t].pc = "counted"
    /\ subs_lock.holder = "none"
    /\ IF subs_lock.poisoned
       THEN /\ threads' = [threads EXCEPT ![t].pc = "panicked"]
            /\ UNCHANGED <<subs_lock, dispatched>>
       ELSE /\ threads' = [threads EXCEPT ![t].pc = "dispatch", ![t].idx = 1]
            /\ subs_lock' = [subs_lock EXCEPT !.holder = t]
            /\ dispatched' = Append(dispatched, CallOf(t))
    /\ UNCHANGED <<subscribers, event_counts, bumped, returned, engineVars, marketVars, limitVars, wiringVars, strategyVars>>

\* EventBus::publish, lines 44-48: the next handler is invoked under the lock;
\* a panic of the handler unwinds through publish, which drops the guard and
\* poisons the lock
PublishInvoke(t) ==
    /\ threads[t].pc = "dispatch"
    /\ threads[t].idx <= Len(subscribers[threads[t].tag])
    /\ LET handler == subscribers[threads[t].tag][threads[t].idx]
       IN  IF handler.kind = "panic"
           THEN /\ threads' = [threads EXCEPT ![t].pc = "panicked",
                                 ![t].invoked = Append(@, handler.id)]
                /\ subs_lock' = [holder |-> "none", poisoned |-> TRUE]
           ELSE /\ threads' = [threads EXCEPT ![t].idx = @ + 1,
                                 ![t].invoked = Append(@, handler.id)]
                /\ UNCHANGED subs_lock
    /\ UNCHANGED <<subscribers, event_counts, bumped, dispatched, returned, engineVars, marketVars, limitVars, wiringVars, strategyVars>>

\* EventBus::publish, line 50: every handler was invoked, the guard is
\* dropped and Ok(()) returned
PublishReturn(t) ==
    /\ threads[t].pc = "dispatch"
    /\ threads[t].idx > Len(subscribers[threads[t].tag])
    /\ threads' = [threads EXCEPT ![t].pc = "idle"]
    /\ subs_lock' = [subs_lock EXCEPT !.holder = "none"]
    /\ returned' = [returned EXCEPT ![threads[t].tag] = @ + 1]
    /\ UNCHANGED <<subscribers, event_counts, bumped, dispatched, engineVars, marketVars, limitVars, wiringVars, strategyVars>>

\* EventBus::metrics_snapshot: a copy of the counters, taken under the
\* event_counts lock
MetricsSnapshot(t) ==
    /\ threads[t].pc = "idle"
    /\ last_call' = Call("metrics_snapshot", t, "none")
    /\ result' = Ok(event_counts)
    /\ UNCHANGED <<riskVars, execVars, published, n_opened, busVars, marketVars, limitVars, wiringVars, strategyVars>>

BusNext ==
    \/ \E t \in Threads, T \in Tags, k \in HandlerKinds : Subscribe(t, T, k)
    \/ \E t \in Threads, T \in Tags : PublishCount(t, T)
    \/ \E t \in Threads : PublishLock(t)
    \/ \E t \in Threads : PublishInvoke(t)
    \/ \E t \in Threads : PublishReturn(t)
    \/ \E t \in Threads : MetricsSnapshot(t)

BusSpec == Init /\ [][BusNext]_vars

(***************************************************************************)
(* The wiring of src/src/main.rs: the main thread publishes PriceUpdated,  *)
(* whose handler locks the engine and calls ExecutionEngine::update_price, *)
(* and calls ExecutionEngine::execute.  The counters of the events that    *)
(* the engine publishes itself are not followed here.                      *)
(***************************************************************************)
\* price ticks published
MaxTicks == 2

\* main.rs after the subscriptions and ExecutionEngine::new
WiringInit ==
    /\ EngineNew
    /\ MonitorNew
    /\ EngineRefNew
    /\ StrategyNew
    /\ subscribers = [T \in Tags |->
                        IF T = "PriceUpdated" THEN <<[id |-> 1, kind |-> "engine"]>>
                        ELSE <<[id |-> 2, kind |-> "print"]>>]
    /\ event_counts = [T \in Tags |-> 0]
    /\ subs_lock = [holder |-> "none", poisoned |-> FALSE]
    /\ threads = [t \in Threads |->
                    [pc |-> "idle", tag |-> "", idx |-> 0, invoked |-> <<>>, calls |-> 0]]
    /\ bumped = <<>>
    /\ dispatched = <<>>
    /\ returned = [T \in Tags |-> 0]

\* ExecutionEngine::update_price publishes (RiskHalt first) exactly when the
\* RiskEngine took the price and the kill-switch is active
UpdatePricePublishes(symbol, price) ==
    IsOk(PortfolioUpdatePrice(positions, symbol, price).res) /\ kill_switch

\* main.rs: execute called by the main thread, outside any handler
WiringExecute(symbol, signal, entry_price, stop_loss_distance) ==
    /\ threads["main"].pc = "idle"
    /\ Execute(symbol, signal, entry_price, stop_loss_distance)

\* publish(PriceUpdated) by the main thread: the counter is bumped, the
\* subscribers lock taken and the handler of main.rs invoked under it, which
\* calls ExecutionEngine::update_price.  If update_price publishes nothing the
\* call returns; if it publishes, that publish bumps the counter of RiskHalt
\* and then locks subscribers, which this thread already holds.
Tick(symbol, price) ==
    /\ threads["main"].pc = "idle"
    /\ subs_lock = [holder |-> "none", poisoned |-> FALSE]
    /\ event_counts["PriceUpdated"] < MaxTicks
    /\ IF ~UpdatePricePublishes(symbol, price)
       THEN /\ EngineUpdatePrice(symbol, price)
            /\ event_counts' = [event_counts EXCEPT !["PriceUpdated"] = @ + 1]
            /\ returned' = [returned EXCEPT !["PriceUpdated"] = @ + 1]
            /\ UNCHANGED <<subscribers, subs_lock, threads, bumped, dispatched,
                           marketVars, limitVars, wiringVars, strategyVars>>
       ELSE LET up == PortfolioUpdatePrice(positions, symbol, price)
                refreshed == UpdateRiskState(account_balance, up.positions, peak_equity)
            IN  /\ last_call' = Call("engine_update_price", symbol, "none")
                /\ positions' = up.positions
                /\ peak_equity' = refreshed.peak_equity
                /\ daily_loss' = refreshed.daily_loss
                /\ event_counts' = [event_counts EXCEPT !["PriceUpdated"] = @ + 1,
                                                        !["RiskHalt"] = @ + 1]
                /\ subs_lock' = [subs_lock EXCEPT !.holder = "main"]
                /\ threads' = [threads EXCEPT !["main"] =
                                  [pc |-> "relock", tag |-> "RiskHalt", idx |-> 1,
                                   invoked |-> <<1>>, calls |-> @.calls + 1]]
                /\ UNCHANGED <<account_balance, kill_switch, kill_switch_reason,
                               realized_pnl, execVars, result, published, n_opened,
                               subscribers, bumped, dispatched, returned,
                               marketVars, limitVars, wiringVars, strategyVars>>

\* Mutex::lock by the thread that holds the mutex never returns: the thread
\* stays blocked for ever (this action is never taken), or it panics, and the
\* panic unwinds through the handler and the outer publish, poisoning the lock
RelockPanics(t) ==
    /\ threads[t].pc = "relock"
    /\ threads' = [threads EXCEPT ![t].pc = "panicked"]
    /\ subs_lock' = [holder |-> "none", poisoned |-> TRUE]
    /\ UNCHANGED <<subscribers, event_counts, bumped, dispatched, returned, engineVars, marketVars, limitVars, wiringVars, strategyVars>>

WiringNext ==
    \/ \E s \in Symbols, sig \in Signals, e \in EntryPrices, d \in StopDistances :
          WiringExecute(s, sig, e, d)
    \/ \E s \in Symbols, p \in EnginePrices : Tick(s, p)
    \/ RelockPanics("main")

WiringSpec == WiringInit /\ [][WiringNext]_vars

(***************************************************************************)
(* The wiring of src/src/main.rs used by two threads: each thread may call *)
(* execute under the engine mutex (main.rs:219-232) and may publish        *)
(* PriceUpdated, whose handler takes the engine mutex (main.rs:75-89).     *)
(* The engine's fields are written when the call that holds the mutex      *)
(* returns; the fields of a call that is blocked inside it are not shown.  *)
(***************************************************************************)
\* the event types of main.rs's subscriptions and of the engine's publishes
SharedTags == {"PriceUpdated", "RiskHalt", "Error", "OrderSubmitted", "OrderFilled",
               "TradeExecuted", "TradeClosed"}

\* main.rs trades one symbol (strategy_config.symbol); the entry price comes
\* from a validated, positive market price
SharedSymbols == {"BTCUSDT"}
SharedEntryPrices == EntryPrices \ {0}
SharedStopDistances == {0, (3 * Scale) \div 4}

\* main.rs after the subscriptions and ExecutionEngine::new: the engine's
\* handler on PriceUpdated, printing handlers on the other subscribed types,
\* none on TradeClosed
SharedInit ==
    /\ EngineNew
    /\ MonitorNew
    /\ EngineRefNew
    /\ StrategyNew
    /\ subscribers = [T \in SharedTags |->
                        IF T = "PriceUpdated" THEN <<[id |-> 1, kind |-> "engine"]>>
                        ELSE IF T = "TradeClosed" THEN <<>>
                        ELSE <<[id |-> 2, kind |-> "print"]>>]
    /\ event_counts = [T \in SharedTags |-> 0]
    /\ subs_lock = [holder |-> "none", poisoned |-> FALSE]
    /\ threads = [t \in Threads |->
                    [pc |-> "idle", tag |-> "", idx |-> 0, invoked |-> <<>>, calls |-> 0]]
    /\ bumped = <<>>
    /\ dispatched = <<>>
    /\ returned = [T \in SharedTags |-> 0]

\* std::sync::Mutex::lock returns only when no thread holds the mutex
MutexFree(mutex) == mutex.holder = "none"

\* main.rs:219-232: execution_engine_ref.lock().ok() and engine.execute under
\* the guard.  A poisoned mutex gives None and the call is skipped.  An
\* execute that publishes nothing returns and drops the guard; one that
\* publishes bumps the counter of its first event (bus.rs:37-41) and goes on
\* to subscribers.lock() (bus.rs:42) while holding the engine mutex.
SharedExecute(t, symbol, signal, entry_price, stop_loss_distance) ==
    /\ threads[t].pc = "idle"
    /\ threads[t].calls < MaxCalls
    /\ MutexFree(execution_engine_ref)
    /\ \E out \in {ExecuteOutcome(symbol, signal, entry_price, stop_loss_distance)} :
         /\ out.next_order_id # next_order_id => next_order_id <= MaxOrders
         /\ IF execution_engine_ref.poisoned
            THEN /\ threads' = [threads EXCEPT ![t].calls = @ + 1]
                 /\ UNCHANGED <<engineVars, event_counts, wiringVars>>
            ELSE IF out.published = <<>>
            THEN /\ EngineExecute(symbol, signal, entry_price, stop_loss_distance)
                 /\ threads' = [threads EXCEPT ![t].calls = @ + 1]
                 /\ UNCHANGED <<event_counts, wiringVars>>
            ELSE /\ execution_engine_ref' = [execution_engine_ref EXCEPT !.holder = t]
                 /\ event_counts' = [event_counts EXCEPT ![out.published[1].type] = @ + 1]
                 /\ threads' = [threads EXCEPT ![t] =
                                   [pc |-> "engine_publish", tag |-> out.published[1].type,
                                    idx |-> 1, invoked |-> <<>>, calls |-> @.calls + 1,
                                    call |-> <<symbol, signal, entry_price,
                                               stop_loss_distance>>]]
                 /\ UNCHANGED engineVars
    /\ UNCHANGED <<subscribers, subs_lock, bumped, dispatched, returned, marketVars,
                   limitVars, strategyVars>>

\* EventBus::publish called by execute, from line 42 on: the thread waits for
\* the subscribers lock (unwrap panics on a poisoned one, and the unwinding
\* drops the engine guard, which poisons the engine mutex), the printing
\* handlers run and the guard is dropped.  Then execute goes on to its next
\* publish, or returns: its writes to the engine are shown and the engine
\* mutex is released.
SharedEnginePublish(t) ==
    /\ threads[t].pc = "engine_publish"
    /\ MutexFree(subs_lock)
    /\ LET call == threads[t].call
           out == ExecuteOutcome(call[1], call[2], call[3], call[4])
           idx == threads[t].idx
       IN  IF subs_lock.poisoned
           THEN /\ threads' = [threads EXCEPT ![t].pc = "panicked"]
                /\ execution_engine_ref' = [holder |-> "none", poisoned |-> TRUE]
                /\ UNCHANGED <<engineVars, event_counts, returned>>
           ELSE IF idx < Len(out.published)
           THEN /\ threads' = [threads EXCEPT ![t].idx = idx + 1,
                                              ![t].tag = out.published[idx + 1].type]
                /\ event_counts' = [event_counts EXCEPT
                                       ![out.published[idx + 1].type] = @ + 1]
                /\ returned' = [returned EXCEPT ![threads[t].tag] = @ + 1]
                /\ UNCHANGED <<engineVars, wiringVars>>
           ELSE /\ EngineExecute(call[1], call[2], call[3], call[4])
                /\ threads' = [threads EXCEPT ![t] =
                                  [pc |-> "idle", tag |-> "", idx |-> 0,
                                   invoked |-> <<>>, calls |-> @.calls]]
                /\ execution_engine_ref' = [execution_engine_ref EXCEPT !.holder = "none"]
                /\ returned' = [returned EXCEPT ![threads[t].tag] = @ + 1]
                /\ UNCHANGED event_counts
    /\ UNCHANGED <<subscribers, subs_lock, bumped, dispatched, marketVars, limitVars, strategyVars>>

\* the PriceUpdated handler taking the engine although another thread holds it
SharedHandlerBarging(t, symbol, price) ==
    /\ threads[t].pc = "dispatch"
    /\ threads[t].idx <= Len(subscribers[threads[t].tag])
    /\ subscribers[threads[t].tag][threads[t].idx].kind = "engine"
    /\ EngineUpdatePrice(symbol, price)
    /\ threads' = [threads EXCEPT ![t].idx = @ + 1, ![t].invoked = Append(@, 1)]
    /\ UNCHANGED <<subscribers, event_counts, subs_lock, bumped, dispatched, returned,
                   marketVars, limitVars, wiringVars, strategyVars>>

\* main.rs:75-89, the PriceUpdated handler invoked under the subscribers
\* lock: it waits for the engine mutex (a poisoned one is skipped) and calls
\* ExecutionEngine::update_price.  If update_price publishes nothing the
\* handler returns and drops the guard; if it publishes, that publish bumps
\* the counter of RiskHalt and locks subscribers, which this thread holds.
SharedHandler(t, symbol, price) ==
    /\ threads[t].pc = "dispatch"
    /\ threads[t].idx <= Len(subscribers[threads[t].tag])
    /\ subscribers[threads[t].tag][threads[t].idx].kind = "engine"
    /\ MutexFree(execution_engine_ref)
    /\ IF execution_engine_ref.poisoned
       THEN /\ threads' = [threads EXCEPT ![t].idx = @ + 1, ![t].invoked = Append(@, 1)]
            /\ UNCHANGED <<engineVars, event_counts, wiringVars>>
       ELSE IF ~UpdatePricePublishes(symbol, price)
       THEN /\ EngineUpdatePrice(symbol, price)
            /\ threads' = [threads EXCEPT ![t].idx = @ + 1, ![t].invoked = Append(@, 1)]
            /\ UNCHANGED <<event_counts, wiringVars>>
       ELSE LET up == PortfolioUpdatePrice(positions, symbol, price)
                refreshed == UpdateRiskState(account_balance, up.positions, peak_equity)
            IN  /\ last_call' = Call("engine_update_price", symbol, "none")
                /\ positions' = up.positions
                /\ peak_equity' = refreshed.peak_equity
                /\ daily_loss' = refreshed.daily_loss
                /\ event_counts' = [event_counts EXCEPT !["RiskHalt"] = @ + 1]
                /\ execution_engine_ref' = [execution_engine_ref EXCEPT !.holder = t]
                /\ threads' = [threads EXCEPT ![t].pc = "relock", ![t].tag = "RiskHalt",
                                              ![t].invoked = Append(@, 1)]
                /\ UNCHANGED <<account_balance, kill_switch, kill_switch_reason,
                               realized_pnl, execVars, result, published, n_opened>>
    /\ UNCHANGED <<subscribers, subs_lock, bumped, dispatched, returned, marketVars,
                   limitVars, strategyVars>>

\* Mutex::lock by the thread that holds the mutex: the thread stays blocked
\* for ever (this action is never taken), or it panics, and the panic unwinds
\* through update_price, the handler and the outer publish, poisoning the
\* engine mutex and the subscribers lock
SharedRelockPanics(t) ==
    /\ threads[t].pc = "relock"
    /\ threads' = [threads EXCEPT ![t].pc = "panicked"]
    /\ subs_lock' = [holder |-> "none", poisoned |-> TRUE]
    /\ execution_engine_ref' = [holder |-> "none", poisoned |-> TRUE]
    /\ UNCHANGED <<subscribers, event_counts, bumped, dispatched, returned, engineVars,
                   marketVars, limitVars, strategyVars>>

\* publish(PriceUpdated) by a thread that is in no call
SharedPublishPrice(t) ==
    /\ event_counts["PriceUpdated"] < MaxTicks
    /\ PublishCount(t, "PriceUpdated")

SharedNext ==
    \/ \E t \in Threads, s \in SharedSymbols, sig \in Signals, e \in SharedEntryPrices,
          d \in SharedStopDistances : SharedExecute(t, s, sig, e, d)
    \/ \E t \in Threads : SharedEnginePublish(t)
    \/ \E t \in Threads : SharedPublishPrice(t)
    \/ \E t \in Threads : PublishLock(t)
    \/ \E t \in Threads, s \in SharedSymbols, p \in EnginePrices : SharedHandler(t, s, p)
    \/ \E t \in Threads : PublishReturn(t)
    \/ \E t \in Threads : SharedRelockPanics(t)

SharedSpec == SharedInit /\ [][SharedNext]_vars

(***************************************************************************)
(* The mean-reversion strategy (src/src/strategy/mean_reversion.rs).       *)
(***************************************************************************)
\* MeanReversionStrategy::new parameters: the window size (main.rs passes 10)
\* and the deviation threshold 0.02
window_size == 3
threshold == (2 * Scale) \div 100
\* prices of the events handed to signal
StrategyPrices == {97 * Scale, 99 * Scale, 100 * Scale, 103 * Scale}

RECURSIVE SumSeq(_)
SumSeq(q) == IF q = <<>> THEN 0 ELSE Head(q) + SumSeq(Tail(q))

\* calculate_mean: None (<<>>) on an empty window, else sum / len
CalculateMean(window) ==
    IF window = <<>> THEN <<>> ELSE <<RoundDiv(SumSeq(window), Len(window))>>

\* calculate_deviation: |current_price - mean| / mean
CalculateDeviation(current_price, mean) ==
    RoundDiv(Abs(current_price - mean) * Scale, mean)

\* MeanReversionStrategy::signal on the window it holds
StrategySignal(window, price) ==
    IF window = <<>> THEN "Hold"
    ELSE LET mean == CalculateMean(window)[1]
             deviation == CalculateDeviation(price, mean)
         IN  IF price < mean /\ deviation > threshold THEN "Buy"
             ELSE IF price > mean /\ deviation > threshold THEN "Sell"
             ELSE "Hold"

\* the last window_size prices among those in seen followed by price
Observed(seen, price) ==
    LET all == Append(seen, price)
    IN  IF Len(all) <= window_size THEN all
        ELSE SubSeq(all, Len(all) - window_size + 1, Len(all))

\* Strategy::signal(&self, event): the window is read, never written.
\* last_call.observed keeps the prices of the earlier calls, at most
\* window_size of them.
Signal(symbol, price) ==
    /\ last_call' = [op |-> "signal", symbol |-> symbol, pre_trade |-> "none",
                     price |-> price,
                     observed |-> IF last_call.op = "signal"
                                  THEN Observed(last_call.observed, last_call.price)
                                  ELSE <<>>]
    /\ result' = Ok(StrategySignal(prices, price))
    /\ published' = <<>>
    /\ UNCHANGED <<riskVars, execVars, n_opened, busVars, marketVars, limitVars,
                   wiringVars, strategyVars>>

StrategyNext ==
    \E s \in SharedSymbols, p \in StrategyPrices : Signal(s, p)

StrategySpec == Init /\ [][StrategyNext]_vars

(***************************************************************************)
(* Market data (src/src/market_data): PriceMonitor, PriceValidator, the    *)
(* exchange fetchers, ResilientFetcher and the tick pipeline of main.rs.   *)
(***************************************************************************)
\* PriceMonitor's gap threshold in ms (main.rs passes 60_000) and the latest
\* clock reading
gap_threshold_ms == 2
MaxTime == 4
\* the ticks of the pipeline are capped by the bus counters
MaxFetches == 2

\* SystemTime::now in ms; the wall clock is not monotone
Timestamps == 0..MaxTime
\* prices handed to PriceMonitor::process directly
MonitorPrices == {5 * Scale, 6 * Scale}

PriceEventOf(symbol, price, timestamp, volume) ==
    [symbol |-> symbol, price |-> price, timestamp |-> timestamp, volume |-> volume]

EvPriceUpdated(ev) == [type |-> "PriceUpdated", event |-> ev]

\* PriceMonitor::process, the duplicate test with < for <=
MonitorIsDuplicateStrict(seen, ev) ==
    ev.timestamp < seen.timestamp /\ ev.price = seen.price

\* PriceMonitor::process: the duplicate test against the symbol's record
MonitorIsDuplicate(seen, ev) ==
    ev.timestamp <= seen.timestamp /\ ev.price = seen.price

\* PriceMonitor::process: the gap test against the symbol's record
MonitorIsGap(seen, ev) ==
    ev.timestamp > seen.timestamp /\ ev.timestamp - seen.timestamp > gap_threshold_ms

\* the gap error, with the event recorded all the same
GapRejectedRecorded(ls, ev) ==
    [res |-> Err("MarketData",
                 "Price gap detected for " \o ev.symbol \o ": "
                 \o ToString(ev.timestamp - ls[ev.symbol].timestamp) \o "ms"),
     last_seen |-> MapPut(ls, ev.symbol, [timestamp |-> ev.timestamp, price |-> ev.price])]

\* the gap error, with the symbol's record dropped so that the next event
\* starts afresh
GapRejectedForgotten(ls, ev) ==
    [res |-> Err("MarketData",
                 "Price gap detected for " \o ev.symbol \o ": "
                 \o ToString(ev.timestamp - ls[ev.symbol].timestamp) \o "ms"),
     last_seen |-> MapRemove(ls, ev.symbol)]

\* PriceMonitor::process: the return on a gap, before last_seen.insert
GapRejected(ls, ev) ==
    [res |-> Err("MarketData",
                 "Price gap detected for " \o ev.symbol \o ": "
                 \o ToString(ev.timestamp - ls[ev.symbol].timestamp) \o "ms"),
     last_seen |-> ls]

\* PriceMonitor::process: Ok(None) is Ok(<<>>), Ok(Some(e)) is Ok(<<e>>)
MonitorProcess(ls, ev) ==
    IF ev.symbol \in DOMAIN ls /\ MonitorIsDuplicate(ls[ev.symbol], ev)
    THEN [res |-> Ok(<<>>), last_seen |-> ls]
    ELSE IF ev.symbol \in DOMAIN ls /\ MonitorIsGap(ls[ev.symbol], ev)
    THEN GapRejected(ls, ev)
    ELSE [res |-> Ok(<<ev>>),
          last_seen |-> MapPut(ls, ev.symbol,
                               [timestamp |-> ev.timestamp, price |-> ev.price])]

\* PriceMonitor::process called directly; after_gap observes that the call
\* before it was a gap rejection for the same symbol
Process(symbol, timestamp, price) ==
    LET ev == PriceEventOf(symbol, price, timestamp, Scale)
        out == MonitorProcess(last_seen, ev)
    IN  /\ last_call' = [op |-> "process", symbol |-> symbol, pre_trade |-> "none",
                         event |-> ev,
                         after_gap |-> /\ last_call.op = "process"
                                       /\ last_call.symbol = symbol
                                       /\ result.kind = "MarketData"]
        /\ result' = out.res
        /\ last_seen' = out.last_seen
        /\ published' = <<>>
        /\ UNCHANGED <<riskVars, execVars, n_opened, busVars, limitVars, wiringVars, strategyVars>>

MonitorNext ==
    \E s \in Symbols, t \in Timestamps, p \in MonitorPrices : Process(s, t, p)

MonitorSpec == Init /\ [][MonitorNext]_vars

\* what an exchange answers to one request: a ticker (price 0 and a negative
\* volume are the invalid ones) or a failure of the request
FeedReply(price, volume) == [ok |-> TRUE, price |-> price, volume |-> volume,
                             err |-> Ok("unit")]
FeedFailure(err) == [ok |-> FALSE, price |-> 0, volume |-> 0, err |-> err]
FeedOutcomes ==
    {FeedReply(5 * Scale, Scale), FeedReply(6 * Scale, Scale), FeedReply(0, Scale),
     FeedReply(5 * Scale, -Scale),
     FeedFailure(Err("Network", "timeout")),
     FeedFailure(Err("MarketData", "No ticker data from Bybit"))}

\* the event types the pipeline publishes
PipelineTags == {"PriceUpdated", "Error"}

\* PriceValidator::validate
PriceValidatorValidate(ev) ==
    IF ev.price <= 0 THEN Err("Validation", "Price must be positive")
    ELSE IF ev.volume < 0 THEN Err("Validation", "Volume cannot be negative")
    ELSE IF ev.symbol = "" THEN Err("Validation", "Symbol cannot be empty")
    ELSE Ok("unit")

\* PriceValidator::normalize: validate, then round the price to the grid
PriceValidatorNormalize(ev) ==
    IF ~IsOk(PriceValidatorValidate(ev)) THEN PriceValidatorValidate(ev)
    ELSE Ok([ev EXCEPT !.price = RoundDiv(ev.price * Scale, Scale)])

\* BinanceFetcher/BybitFetcher::fetch_price, one attempt: a failed request
\* returns before anything is published; a ticker is made into a PriceEvent,
\* published as PriceUpdated and returned.  The trace lists the attempt and
\* the publish calls in the order in which they happen.
FetcherAttempt(feed, outcome, symbol, timestamp) ==
    IF ~outcome.ok
    THEN [res |-> outcome.err,
          trace |-> <<[step |-> "attempt", feed |-> feed, res |-> outcome.err]>>]
    ELSE LET ev == PriceEventOf(symbol, outcome.price, timestamp, outcome.volume)
         IN  [res |-> Ok(ev),
              trace |-> <<[step |-> "attempt", feed |-> feed, res |-> Ok(ev)],
                          [step |-> "publish", event |-> EvPriceUpdated(ev)]>>]

\* the Error event without the primary error's text
PrimaryFailureEventsBare(primary_err) ==
    <<[step |-> "publish", event |-> EvError("Primary feed failed")]>>

\* ResilientFetcher::fetch_price: the Error event published on primary failure
PrimaryFailureEvents(primary_err) ==
    <<[step |-> "publish",
       event |-> EvError("Primary feed failed: " \o ErrToString(primary_err))]>>

\* ResilientFetcher::fetch_price: the map_err on the secondary's result
SecondaryResult(res) ==
    IF IsOk(res) THEN res
    ELSE Err("MarketData", "Secondary feed failed: " \o ErrToString(res))

\* fetch_price asking the secondary as well when the primary succeeded
ResilientFetchPriceBoth(symbol, primary, secondary, timestamp) ==
    LET a1 == FetcherAttempt("primary", primary, symbol, timestamp)
        a2 == FetcherAttempt("secondary", secondary, symbol, timestamp)
    IN  IF IsOk(a1.res)
        THEN [res |-> a1.res, trace |-> a1.trace \o a2.trace]
        ELSE [res |-> SecondaryResult(a2.res),
              trace |-> a1.trace \o PrimaryFailureEvents(a1.res) \o a2.trace]

\* fetch_price retrying the primary once before it fails over
ResilientFetchPriceRetry(symbol, primary, secondary, timestamp) ==
    LET a1 == FetcherAttempt("primary", primary, symbol, timestamp)
        a2 == FetcherAttempt("secondary", secondary, symbol, timestamp)
    IN  IF IsOk(a1.res)
        THEN [res |-> a1.res, trace |-> a1.trace]
        ELSE [res |-> SecondaryResult(a2.res),
              trace |-> a1.trace \o a1.trace \o PrimaryFailureEvents(a1.res)
                        \o a2.trace]

\* ResilientFetcher::fetch_price
ResilientFetchPrice(symbol, primary, secondary, timestamp) ==
    LET a1 == FetcherAttempt("primary", primary, symbol, timestamp)
        a2 == FetcherAttempt("secondary", secondary, symbol, timestamp)
    IN  IF IsOk(a1.res)
        THEN [res |-> a1.res, trace |-> a1.trace]
        ELSE [res |-> SecondaryResult(a2.res),
              trace |-> a1.trace \o PrimaryFailureEvents(a1.res) \o a2.trace]

\* the events of a trace, in the order of their publish calls
PublishedIn(trace) ==
    LET steps == SelectSeq(trace, LAMBDA x : x.step = "publish")
    IN  [i \in 1..Len(steps) |-> steps[i].event]

\* the attempts of a trace, in order
AttemptsIn(trace) == SelectSeq(trace, LAMBDA x : x.step = "attempt")

\* the number of events of type T in a sequence of events
CountType(events, T) == Len(SelectSeq(events, LAMBDA e : e.type = T))

\* main.rs, from fetch to monitor: where the tick ends and what it returns
PipelineOutcome(ls, fetched) ==
    IF ~IsOk(fetched.res)
    THEN [stage |-> "fetch_failed", res |-> fetched.res, last_seen |-> ls]
    ELSE LET normalized == PriceValidatorNormalize(fetched.res.value)
         IN  IF ~IsOk(normalized)
             THEN [stage |-> "invalid", res |-> normalized, last_seen |-> ls]
             ELSE LET out == MonitorProcess(ls, normalized.value)
                  IN  IF ~IsOk(out.res)
                      THEN [stage |-> "gap", res |-> out.res, last_seen |-> out.last_seen]
                      ELSE IF out.res.value = <<>>
                      THEN [stage |-> "duplicate", res |-> Ok("unit"),
                            last_seen |-> out.last_seen]
                      ELSE [stage |-> "accepted", res |-> Ok(out.res.value[1]),
                            last_seen |-> out.last_seen]

\* main.rs: the bus with the engine's handler on PriceUpdated and the
\* printing handler on Error, the engine and the monitor just constructed
PipelineInit ==
    /\ EngineNew
    /\ MonitorNew
    /\ EngineRefNew
    /\ StrategyNew
    /\ subscribers = [T \in PipelineTags |->
                        IF T = "PriceUpdated" THEN <<[id |-> 1, kind |-> "engine"]>>
                        ELSE <<[id |-> 2, kind |-> "print"]>>]
    /\ event_counts = [T \in PipelineTags |-> 0]
    /\ subs_lock = [holder |-> "none", poisoned |-> FALSE]
    /\ threads = [t \in Threads |->
                    [pc |-> "idle", tag |-> "", idx |-> 0, invoked |-> <<>>, calls |-> 0]]
    /\ bumped = <<>>
    /\ dispatched = <<>>
    /\ returned = [T \in PipelineTags |-> 0]

\* main.rs, one tick: fetcher.fetch_price, PriceValidator::normalize,
\* monitor.process.  Every publish made on the way bumps its counter and runs
\* the handlers; the handler of PriceUpdated calls ExecutionEngine::update_price
\* (the kill-switch being off, update_price publishes nothing itself).
PipelineTick(symbol, primary, secondary, timestamp) ==
    /\ ~kill_switch
    /\ subs_lock = [holder |-> "none", poisoned |-> FALSE]
    /\ event_counts["PriceUpdated"] + event_counts["Error"] <= MaxFetches
    /\ \E fetched \in {ResilientFetchPrice(symbol, primary, secondary, timestamp)} :
         LET events == PublishedIn(fetched.trace)
             out == PipelineOutcome(last_seen, fetched)
             price_events == SelectSeq(events, LAMBDA e : e.type = "PriceUpdated")
             up == IF price_events = <<>> THEN [res |-> Ok("unit"), positions |-> positions]
                   ELSE PortfolioUpdatePrice(positions, price_events[1].event.symbol,
                                             price_events[1].event.price)
             refreshed == UpdateRiskState(account_balance, up.positions, peak_equity)
         IN  /\ last_call' = [op |-> "tick", symbol |-> symbol, pre_trade |-> "none",
                              trace |-> fetched.trace, fetch |-> fetched.res,
                              stage |-> out.stage]
             /\ result' = out.res
             /\ published' = events
             /\ last_seen' = out.last_seen
             /\ event_counts' = [T \in PipelineTags |->
                                    event_counts[T] + CountType(events, T)]
             /\ returned' = [T \in PipelineTags |-> returned[T] + CountType(events, T)]
             /\ IF prices # <<>> /\ IsOk(up.res)
                THEN /\ positions' = up.positions
                     /\ peak_equity' = refreshed.peak_equity
                     /\ daily_loss' = refreshed.daily_loss
                ELSE UNCHANGED <<positions, peak_equity, daily_loss>>
             /\ UNCHANGED <<account_balance, kill_switch, kill_switch_reason,
                            realized_pnl, execVars, n_opened, subscribers, subs_lock,
                            threads, bumped, dispatched, limitVars, wiringVars, strategyVars>>

PipelineNext ==
    \E s \in Symbols, primary \in FeedOutcomes, secondary \in FeedOutcomes,
       t \in Timestamps : PipelineTick(s, primary, secondary, t)

PipelineSpec == PipelineInit /\ [][PipelineNext]_vars

(***************************************************************************)
(* Properties.                                                             *)
(***************************************************************************)
TerminalStatuses == {"Filled", "Cancelled", "Rejected"}

\* the order events an execute call may publish
OrderEventTypes == {"OrderSubmitted", "OrderFilled", "TradeExecuted"}

\* the total quantity of the recorded fills of order id
RECURSIVE FillsTotalFrom(_, _)
FillsTotalFrom(fs, id) ==
    IF fs = <<>> THEN 0
    ELSE (IF Head(fs).order_id = id THEN Head(fs).quantity ELSE 0)
         + FillsTotalFrom(Tail(fs), id)

\* C1: while the kill-switch is active, every RiskEngine call other than
\* deactivate_kill_switch leaves it active, and a pre_trade_validate fails on
\* the kill-switch check with a Risk error, before any other check and without
\* writing any field.
KillSwitchSticky ==
    [][kill_switch =>
        /\ (last_call'.op # "deactivate_kill_switch" => kill_switch')
        /\ (last_call'.op = "pre_trade_validate" =>
              /\ result'.kind = "Risk"
              /\ result'.msg = "Kill-switch active; trading halted"
              /\ last_call'.pre_trade = "kill_switch"
              /\ UNCHANGED riskVars)]_vars

\* C1 witness: a pre_trade_validate was refused by the active kill-switch
KillSwitchStickyWitness ==
    /\ kill_switch
    /\ last_call.op = "pre_trade_validate"
    /\ last_call.pre_trade = "kill_switch"
    /\ result.kind = "Risk"

\* C2: an execute whose pre_trade_validate fails creates no order, does not
\* advance next_order_id, opens no position, records no fill or trade and
\* publishes no OrderSubmitted, OrderFilled or TradeExecuted.
RejectedExecuteHasNoOrder ==
    [][(last_call'.op = "execute" /\ last_call'.pre_trade \notin {"ok", "none"}) =>
        /\ orders' = orders
        /\ next_order_id' = next_order_id
        /\ positions' = positions
        /\ fills' = fills
        /\ trades' = trades
        /\ \A i \in 1..Len(published') : published'[i].type \notin OrderEventTypes]_vars

\* C2 witness: an execute was refused because the kill-switch was already active
RejectedExecuteWitness ==
    /\ last_call.op = "execute"
    /\ last_call.pre_trade = "kill_switch"
    /\ result.kind = "Execution"
    /\ next_order_id > 1

\* C3 (as claimed): while the kill-switch is active no record_trade_open
\* succeeds and none adds a position.
NoOpenWhileTripped ==
    [][(kill_switch /\ last_call'.op = "record_trade_open") =>
        (~IsOk(result') /\ positions' = positions)]_vars

\* C4 (as claimed): peak_equity >= equity in every state of the RiskEngine.
PeakEquityBoundsEquity == peak_equity >= Equity

\* C5: every order has 0 <= filled_quantity <= quantity.
FilledWithinQuantity ==
    \A id \in DOMAIN orders :
        /\ 0 <= orders[id].filled_quantity
        /\ orders[id].filled_quantity <= orders[id].quantity

\* C5 witness: an order filled by two fills, up to its quantity
FilledWithinQuantityWitness ==
    \E id \in DOMAIN orders :
        /\ orders[id].quantity > Scale
        /\ orders[id].filled_quantity = orders[id].quantity

\* C6: an order whose status is Filled, Cancelled or Rejected is left as it is
\* by every later call.
TerminalOrdersAbsorbing ==
    [][\A id \in DOMAIN orders :
          orders[id].status \in TerminalStatuses =>
              (id \in DOMAIN orders' /\ orders'[id] = orders[id])]_vars

\* C6 witness: a cancel or replace was refused on a closed order
TerminalOrdersWitness ==
    /\ last_call.op \in {"cancel_order", "replace_order"}
    /\ result.kind = "Execution"
    /\ result.msg = "Order already closed"
    /\ \E id \in DOMAIN orders : orders[id].status = "Cancelled"

\* C7: for each order the recorded fills add up to filled_quantity, and to
\* quantity when the order is Filled.
FillConservation ==
    \A id \in DOMAIN orders :
        /\ FillsTotalFrom(fills, id) = orders[id].filled_quantity
        /\ (orders[id].status = "Filled" =>
               FillsTotalFrom(fills, id) = orders[id].quantity)

\* C7 witness: a Filled order whose two fills differ in quantity
FillConservationWitness ==
    \E i, j \in 1..Len(fills) :
        /\ fills[i].order_id = fills[j].order_id
        /\ fills[i].quantity # fills[j].quantity
        /\ orders[fills[i].order_id].status = "Filled"

\* the status of every order agrees with its fill level
StatusMatchesFill ==
    \A id \in DOMAIN orders :
        /\ (orders[id].filled_quantity < orders[id].quantity =>
               orders[id].status # "Filled")
        /\ (orders[id].filled_quantity >= orders[id].quantity =>
               orders[id].status \notin {"New", "PartiallyFilled"})

\* C8: filled_quantity never decreases, and an order is Filled exactly when
\* filled_quantity >= quantity.
FilledMonotoneAndStatus ==
    /\ []StatusMatchesFill
    /\ [][\A id \in DOMAIN orders :
             /\ id \in DOMAIN orders'
             /\ orders'[id].filled_quantity >= orders[id].filled_quantity]_vars

\* C8 witness: a Filled order beside an unfilled one
FilledMonotoneWitness ==
    \E a, b \in DOMAIN orders :
        /\ orders[a].status = "Filled"
        /\ orders[a].filled_quantity >= orders[a].quantity
        /\ orders[b].status = "New"
        /\ orders[b].filled_quantity < orders[b].quantity

\* C9: record_trade_open (Portfolio::open_position) for a symbol that already
\* has an open position fails with a Risk error and leaves every position and
\* realized_pnl as they were.
OnePositionPerSymbol ==
    [][(last_call'.op = "record_trade_open" /\ last_call'.symbol \in DOMAIN positions) =>
        /\ result'.kind = "Risk"
        /\ result'.msg = "Position already open for " \o last_call'.symbol
        /\ positions' = positions
        /\ realized_pnl' = realized_pnl]_vars

\* C9 witness: an open was refused for a symbol while another symbol is open too
OnePositionPerSymbolWitness ==
    /\ last_call.op = "record_trade_open"
    /\ result.kind = "Risk"
    /\ last_call.symbol \in DOMAIN positions
    /\ Cardinality(DOMAIN positions) = 2

\* C10: the ExecutionEngine never holds more than max_open_positions open
\* positions, and no execute lowers the exposure.
RiskMonotone ==
    /\ [](OpenPositionsOf(positions) <= max_open_positions)
    /\ [][last_call'.op = "execute" =>
             ExposureOf(positions') >= ExposureOf(positions)]_vars

\* C10 witness: an execute was refused with max_open_positions positions open,
\* after an execute that raised the exposure
RiskMonotoneWitness ==
    /\ last_call.op = "execute"
    /\ last_call.pre_trade = "max_open_positions"
    /\ OpenPositionsOf(positions) = max_open_positions
    /\ ExposureOf(positions) > 0

\* C11: when ExecutionEngine::update_price returns Ok with the kill-switch
\* active it has published RiskHalt first, then exactly one TradeClosed per
\* position that was open, and no position remains open.
LiquidationOnHalt ==
    [][(last_call'.op = "engine_update_price" /\ IsOk(result') /\ kill_switch') =>
        /\ Len(published') = 1 + Cardinality(DOMAIN positions)
        /\ published'[1] = EvRiskHalt(kill_switch_reason')
        /\ \A s \in DOMAIN positions :
              Cardinality({i \in 2..Len(published') :
                              /\ published'[i].type = "TradeClosed"
                              /\ published'[i].symbol = s}) = 1
        /\ positions' = EmptyMap]_vars

\* C11 witness: a price update under the kill-switch closed an open position
LiquidationOnHaltWitness ==
    /\ last_call.op = "engine_update_price"
    /\ IsOk(result)
    /\ kill_switch
    /\ Len(published) >= 2
    /\ published[1].type = "RiskHalt"
    /\ published[2].type = "TradeClosed"
    /\ positions = EmptyMap

\* C12: every ExecutionEngine operation that takes the kill-switch from
\* inactive to active has published, before it returns, a RiskHalt carrying
\* the activation reason.
HaltPublishedOnTrip ==
    [][(~kill_switch /\ kill_switch') =>
        \E i \in 1..Len(published') : published'[i] = EvRiskHalt(kill_switch_reason')]_vars

\* C12 witness: an execute tripped the kill-switch on the open-position limit
HaltPublishedOnTripWitness ==
    /\ last_call.op = "execute"
    /\ last_call.pre_trade = "max_open_positions"
    /\ kill_switch
    /\ kill_switch_reason = "Max open positions reached"
    /\ published[1] = EvRiskHalt("Max open positions reached")

\* C13: when pre_trade_validate fails inside execute, RiskHalt is published
\* iff the kill-switch is active after the validation, then exactly one Error
\* carrying the failure message, and the call returns an Execution error with
\* that same message.
PreTradeFailureReported ==
    [][(last_call'.op = "execute" /\ last_call'.pre_trade \notin {"ok", "none"}) =>
        /\ result'.kind = "Execution"
        /\ published' =
              (IF kill_switch' THEN <<EvRiskHalt(kill_switch_reason')>> ELSE <<>>)
              \o <<EvError(result'.msg)>>
        /\ (last_call'.pre_trade = "kill_switch" =>
              result'.msg = "Risk management error: Kill-switch active; trading halted")]_vars

\* C13 witness: a pre-trade failure that leaves the kill-switch inactive
\* published Error alone
PreTradeFailureWitness ==
    /\ last_call.op = "execute"
    /\ last_call.pre_trade = "notional"
    /\ ~kill_switch
    /\ result.kind = "Execution"
    /\ published = <<EvError(result.msg)>>

\* C14 (as claimed): every execute that returns an error has published an
\* Error event.
ExecuteErrorsPublished ==
    [][(last_call'.op = "execute" /\ ~IsOk(result')) =>
        \E i \in 1..Len(published') : published'[i].type = "Error"]_vars

\* C15: the events of one execute are in program order: OrderSubmitted for the
\* new order first, then one OrderFilled per fill recorded for it, then
\* TradeExecuted last; no TradeExecuted without an earlier OrderFilled and no
\* OrderFilled without an earlier OrderSubmitted of the same order id.
ExecuteEventOrder ==
    [][last_call'.op = "execute" =>
        LET ev == published'
            n == Len(ev)
            k == Len(fills') - Len(fills)
        IN  /\ \A i \in 1..n : ev[i].type = "OrderSubmitted" =>
                  /\ i = 1
                  /\ ev[i].order_id = next_order_id
                  /\ Cardinality({j \in 1..n : ev[j].type = "OrderFilled"}) = k
                  /\ \A j \in 1..k :
                        LET f == fills'[Len(fills) + j]
                        IN  ev[1 + j] = EvOrderFilled(f.order_id, f.symbol,
                                                      f.quantity, f.price)
            /\ \A i \in 1..n : ev[i].type = "OrderFilled" =>
                  \E j \in 1..(i - 1) : /\ ev[j].type = "OrderSubmitted"
                                        /\ ev[j].order_id = ev[i].order_id
            /\ \A i \in 1..n : ev[i].type = "TradeExecuted" =>
                  /\ i = n
                  /\ \E j \in 1..(i - 1) : ev[j].type = "OrderFilled"]_vars

\* C15 witness: an execute published OrderSubmitted, two OrderFilled and
\* TradeExecuted
ExecuteEventOrderWitness ==
    /\ last_call.op = "execute"
    /\ Len(published) = 4
    /\ published[1].type = "OrderSubmitted"
    /\ published[2].type = "OrderFilled"
    /\ published[3].type = "OrderFilled"
    /\ published[4].type = "TradeExecuted"

\* C16 (as claimed): with the wiring of main.rs no thread ever calls publish
\* from inside a handler that the bus is invoking under its subscribers lock,
\* so no publish blocks on a lock its own thread holds.
NoPublishUnderLock ==
    \A t \in Threads :
        ~(threads[t].pc = "relock" /\ subs_lock.holder = t)

\* the calls of seq that carry the event type T, in order
RECURSIVE CallsOfTag(_, _)
CallsOfTag(seq, T) ==
    IF seq = <<>> THEN <<>>
    ELSE (IF Head(seq).tag = T THEN <<Head(seq)>> ELSE <<>>)
         \o CallsOfTag(Tail(seq), T)

\* C17 (as claimed): the counter bump and the handler invocations of a publish
\* are one critical section, so the publishes of one event type take the
\* subscribers lock (and deliver) in the order of their counter increments.
DeliveriesInCounterOrder ==
    \A T \in Tags :
        LET d == CallsOfTag(dispatched, T)
            b == CallsOfTag(bumped, T)
        IN  /\ Len(d) <= Len(b)
            /\ \A i \in 1..Len(d) : d[i] = b[i]

\* C18 (as claimed): whenever no publish call is in progress, the counter of
\* each event type equals the number of publish calls of that type that
\* have returned.
CounterLaw ==
    (\A t \in Threads : threads[t].pc \in {"idle", "panicked"}) =>
        \A T \in Tags : event_counts[T] = returned[T]

\* C19 (as claimed): a publish call, when it ends, has invoked every handler
\* subscribed under its event type exactly once, in subscription order, and
\* no other handler.
DispatchInOrder ==
    [][\A t \in Threads :
          (threads[t].pc = "dispatch" /\ threads'[t].pc # "dispatch") =>
              threads'[t].invoked = HandlerIds(threads[t].tag)]_vars

\* C20 (as claimed): a handler that fails does not stop the publish: the
\* publishing thread goes on to the remaining handlers, the failure does not
\* reach the publisher and the bus stays usable (its lock is not poisoned).
HandlerFailureContained ==
    /\ \A t \in Threads : threads[t].pc # "panicked"
    /\ ~subs_lock.poisoned

\* C27 (as claimed): the kill-switch reason is that of the first activation;
\* while the kill-switch stays active, a further activation leaves
\* kill_switch_reason as it was.
KillReasonPreserved ==
    [][(kill_switch /\ kill_switch') => kill_switch_reason' = kill_switch_reason]_vars

\* C28: cancel_order succeeds only for an existing order whose status is not
\* terminal, then sets that order's status to Cancelled, changes no other
\* order and publishes exactly one OrderCancelled; otherwise it returns an
\* Execution error, changes no order and publishes nothing.
CancelOrderContract ==
    [][last_call'.op = "cancel_order" =>
         IF IsOk(result')
         THEN \E id \in DOMAIN orders :
                 /\ orders[id].status \notin TerminalStatuses
                 /\ orders' = [orders EXCEPT ![id].status = "Cancelled"]
                 /\ published' = <<EvOrderCancelled(id, orders[id].symbol)>>
         ELSE /\ result'.kind = "Execution"
              /\ orders' = orders
              /\ published' = <<>>]_vars

CancelOrderWitness ==
    /\ last_call.op = "cancel_order"
    /\ IsOk(result)
    /\ Len(published) = 1
    /\ published[1].type = "OrderCancelled"
    /\ orders[published[1].order_id].status = "Cancelled"

\* C29: every stored order id is below next_order_id; a successful
\* submit_order returns the old next_order_id, advances it by one, stores
\* under that id an order with status New and filled_quantity 0 (of positive
\* quantity), leaves the other orders alone and publishes exactly one
\* OrderSubmitted for that id; a failed submit_order fails with Validation,
\* consumes no id, stores no order and publishes nothing.
SubmitOrderContract ==
    [][/\ \A id \in DOMAIN orders : id < next_order_id
       /\ last_call'.op = "submit_order" =>
            IF IsOk(result')
            THEN /\ result'.value = next_order_id
                 /\ next_order_id' = next_order_id + 1
                 /\ DOMAIN orders' = DOMAIN orders \cup {next_order_id}
                 /\ \A id \in DOMAIN orders : orders'[id] = orders[id]
                 /\ orders'[next_order_id].status = "New"
                 /\ orders'[next_order_id].filled_quantity = 0
                 /\ orders'[next_order_id].quantity > 0
                 /\ Len(published') = 1
                 /\ published'[1].type = "OrderSubmitted"
                 /\ published'[1].order_id = next_order_id
                 /\ published'[1].quantity = orders'[next_order_id].quantity
            ELSE /\ result'.kind = "Validation"
                 /\ next_order_id' = next_order_id
                 /\ orders' = orders
                 /\ published' = <<>>]_vars

SubmitOrderWitness ==
    /\ last_call.op = "submit_order"
    /\ result = Ok(2)
    /\ 1 \in DOMAIN orders
    /\ orders[2].status = "New"
    /\ orders[2].filled_quantity = 0
    /\ next_order_id = 3


\* C25: process(e) on a fresh symbol returns Some(e) and records
\* (timestamp, price); process(e) right after a process(e) that returned
\* Some(e) returns None; and every event with timestamp <= last_timestamp and
\* price = last_price of its symbol returns None, the record of every symbol
\* staying as it was.
MonitorDedupLaw ==
    [][last_call'.op = "process" =>
         LET e == last_call'.event
         IN  /\ e.symbol \notin DOMAIN last_seen =>
                  /\ result' = Ok(<<e>>)
                  /\ last_seen' = MapPut(last_seen, e.symbol,
                                         [timestamp |-> e.timestamp, price |-> e.price])
             /\ (/\ last_call.op = "process"
                 /\ last_call.event = e
                 /\ result = Ok(<<e>>)) =>
                  /\ result' = Ok(<<>>)
                  /\ last_seen' = last_seen
             /\ (/\ e.symbol \in DOMAIN last_seen
                 /\ e.timestamp <= last_seen[e.symbol].timestamp
                 /\ e.price = last_seen[e.symbol].price) =>
                  /\ result' = Ok(<<>>)
                  /\ last_seen' = last_seen]_vars

MonitorDedupWitness ==
    /\ last_call.op = "process"
    /\ result = Ok(<<>>)
    /\ DOMAIN last_seen = Symbols
    /\ last_seen[last_call.symbol] =
          [timestamp |-> last_call.event.timestamp, price |-> last_call.event.price]

\* C26: an event whose timestamp exceeds the last_timestamp recorded for its
\* symbol by more than gap_threshold_ms is rejected with a MarketData error,
\* and the record of every symbol stays as it was.
MonitorGapRejected ==
    [][last_call'.op = "process" =>
         LET e == last_call'.event
         IN  (/\ e.symbol \in DOMAIN last_seen
              /\ e.timestamp > last_seen[e.symbol].timestamp + gap_threshold_ms) =>
                /\ result'.kind = "MarketData"
                /\ last_seen' = last_seen]_vars

MonitorGapWitness ==
    /\ last_call.op = "process"
    /\ result.kind = "MarketData"
    /\ DOMAIN last_seen = Symbols
    /\ last_call.event.timestamp >
          last_seen[last_call.symbol].timestamp + gap_threshold_ms

\* C21 (as claimed): a tick publishes PriceUpdated only for an event that the
\* normalizer has validated and the monitor has accepted; a tick that ends
\* with an invalid event, a duplicate or a gap publishes no PriceUpdated.
PublishedOnlyWhenAccepted ==
    [][last_call'.op = "tick" =>
         (CountType(published', "PriceUpdated") > 0 => last_call'.stage = "accepted")]_vars

\* C22: a fetch_price call publishes exactly one PriceUpdated if it returns Ok
\* and none if it returns an error, and the PriceUpdated counter moves by as
\* much; every PriceUpdated published comes right after a successful attempt
\* and carries that attempt's event, so a failed attempt publishes none.
FetchPublishesOncePerSuccess ==
    [][last_call'.op = "tick" =>
         LET trace == last_call'.trace
             n == IF IsOk(last_call'.fetch) THEN 1 ELSE 0
         IN  /\ CountType(published', "PriceUpdated") = n
             /\ event_counts'["PriceUpdated"] = event_counts["PriceUpdated"] + n
             /\ IsOk(last_call'.fetch) =>
                  published'[Len(published')] = EvPriceUpdated(last_call'.fetch.value)
             /\ \A i \in 1..Len(trace) :
                  (trace[i].step = "publish" /\ trace[i].event.type = "PriceUpdated") =>
                     /\ i > 1
                     /\ trace[i - 1].step = "attempt"
                     /\ trace[i - 1].res = Ok(trace[i].event.event)
             /\ \A i \in 1..Len(trace) :
                  (trace[i].step = "attempt" /\ ~IsOk(trace[i].res)) =>
                     (i = Len(trace) \/ trace[i + 1].event.type # "PriceUpdated")]_vars

FetchPublishesWitness ==
    /\ last_call.op = "tick"
    /\ IsOk(last_call.fetch)
    /\ Len(AttemptsIn(last_call.trace)) = 2
    /\ ~IsOk(AttemptsIn(last_call.trace)[1].res)
    /\ CountType(published, "PriceUpdated") = 1

\* C23: a fetch_price call attempts the primary first and exactly once, and
\* the secondary once exactly when the primary failed and after it; if both
\* fail the call returns a MarketData error; this holds for every call,
\* whatever the calls before it did.
FailoverPerCall ==
    [][last_call'.op = "tick" =>
         LET attempts == AttemptsIn(last_call'.trace)
         IN  /\ Len(attempts) \in {1, 2}
             /\ attempts[1].feed = "primary"
             /\ Len(attempts) = 1 => /\ IsOk(attempts[1].res)
                                     /\ last_call'.fetch = attempts[1].res
             /\ Len(attempts) = 2 =>
                  /\ ~IsOk(attempts[1].res)
                  /\ attempts[2].feed = "secondary"
                  /\ IsOk(attempts[2].res) => last_call'.fetch = attempts[2].res
                  /\ ~IsOk(attempts[2].res) =>
                       /\ last_call'.fetch.kind = "MarketData"
                       /\ last_call'.fetch.msg =
                             "Secondary feed failed: " \o ErrToString(attempts[2].res)]_vars

FailoverPerCallWitness ==
    /\ last_call.op = "tick"
    /\ event_counts["Error"] = 2
    /\ event_counts["PriceUpdated"] = 0
    /\ Len(AttemptsIn(last_call.trace)) = 2
    /\ last_call.fetch.kind = "MarketData"

\* C24: when the primary attempt fails, the next step of the call is the
\* publish of Error("Primary feed failed: <primary error>"), the secondary
\* attempt comes after it and no other Error is published; if the secondary
\* succeeds the call returns its event and the counters of Error and
\* PriceUpdated are each one higher; when the primary succeeds no Error is
\* published.
PrimaryFailureReported ==
    [][last_call'.op = "tick" =>
         LET trace == last_call'.trace
         IN  IF IsOk(trace[1].res)
             THEN /\ CountType(published', "Error") = 0
                  /\ event_counts'["Error"] = event_counts["Error"]
             ELSE /\ Len(trace) >= 3
                  /\ trace[2] =
                        [step |-> "publish",
                         event |-> EvError("Primary feed failed: "
                                           \o ErrToString(trace[1].res))]
                  /\ trace[3].step = "attempt"
                  /\ trace[3].feed = "secondary"
                  /\ CountType(published', "Error") = 1
                  /\ published'[1] = trace[2].event
                  /\ event_counts'["Error"] = event_counts["Error"] + 1
                  /\ IsOk(trace[3].res) =>
                       /\ last_call'.fetch = trace[3].res
                       /\ event_counts'["PriceUpdated"] =
                             event_counts["PriceUpdated"] + 1]_vars

PrimaryFailureWitness ==
    /\ last_call.op = "tick"
    /\ IsOk(last_call.fetch)
    /\ event_counts = [T \in PipelineTags |-> 1]
    /\ published[1].type = "Error"
    /\ published[2].type = "PriceUpdated"

CloseRemovesBeforeValidating ==
    [][last_call'.op = "record_trade_close" =>
         \A s \in DOMAIN positions, p \in Prices :
            (p <= 0 /\ RiskRecordTradeClose(s, p)) =>
               /\ result'.kind = "Validation"
               /\ positions' = MapRemove(positions, s)
               /\ realized_pnl' = realized_pnl
               /\ account_balance' = account_balance
               /\ peak_equity' = peak_equity
               /\ daily_loss' = daily_loss]_vars

\* C36 witness: the position is gone after the failed close and daily_loss
\* still shows the loss of the position that no longer exists
CloseRemovesWitness ==
    /\ last_call.op = "record_trade_close"
    /\ result.kind = "Validation"
    /\ positions = EmptyMap
    /\ daily_loss > 0
    /\ realized_pnl = 0
    /\ account_balance = InitialBalance

\* C38: RiskEngine::update_price never changes kill_switch or
\* kill_switch_reason; when it returns Ok it refreshes daily_loss to the loss
\* at the new prices, so a breach of max_daily_loss or an equity of zero or
\* less is recorded with the switch left as it was; the switch goes from off
\* to on only in a pre_trade_validate or an activate_kill_switch call.
UpdatePriceNeverTrips ==
    [][/\ last_call'.op = "update_price" =>
            /\ kill_switch' = kill_switch
            /\ kill_switch_reason' = kill_switch_reason
            /\ IsOk(result') =>
                 daily_loss' = (IF Equity' < account_balance'
                                THEN account_balance' - Equity' ELSE 0)
       /\ (~kill_switch /\ kill_switch') =>
            last_call'.op \in {"pre_trade_validate", "activate_kill_switch"}]_vars

\* C38 witness: after a price update the daily loss is above its limit and
\* equity is below zero, and the switch is still off
UpdatePriceNeverTripsWitness ==
    /\ last_call.op = "update_price"
    /\ IsOk(result)
    /\ ~kill_switch
    /\ daily_loss > max_daily_loss
    /\ Equity <= 0

\* C32 (as claimed): an execute call whose order received fills records the
\* Trade, opens the position and publishes TradeExecuted, all three or none:
\* a call that appends a Trade returns Ok, has opened the position of its
\* symbol and has published TradeExecuted, and a call that published
\* OrderFilled does not return an error.
TradeOpenAllOrNone ==
    [][last_call'.op = "execute" =>
         /\ Len(trades') > Len(trades) =>
              /\ IsOk(result')
              /\ last_call'.symbol \notin DOMAIN positions
              /\ last_call'.symbol \in DOMAIN positions'
              /\ CountType(published', "TradeExecuted") = 1
         /\ CountType(published', "OrderFilled") > 0 => IsOk(result')]_vars

\* C37: with the kill-switch off and max_open_positions positions open, a
\* Buy or Sell execute whose sizing succeeds and whose inputs are positive
\* trips the kill-switch with reason "Max open positions reached", returns an
\* error and submits no order; no ExecutionEngine call turns the switch off
\* again; and an update_price that returns Ok with the switch on leaves no
\* position open.
LimitTripsThenLiquidates ==
    /\ [](\A s \in Symbols, sig \in {"Buy", "Sell"}, e \in EntryPrices \ {0},
             d \in StopDistances \ {0} :
             (/\ ~kill_switch
              /\ OpenPositionsOf(positions) = max_open_positions
              /\ IsOk(PositionSizerCalculate(account_balance, 2, d))
              /\ PositionSizerCalculate(account_balance, 2, d).value > 0) =>
                LET out == ExecuteOutcome(s, sig, e, d)
                IN  /\ out.fields.kill_switch
                    /\ out.fields.kill_switch_reason = "Max open positions reached"
                    /\ ~IsOk(out.result)
                    /\ out.orders = orders
                    /\ out.next_order_id = next_order_id
                    /\ out.positions = positions)
    /\ [][/\ (last_call'.op = "execute" /\ ~kill_switch /\ kill_switch') =>
               /\ ~IsOk(result')
               /\ orders' = orders
               /\ positions' = positions
          /\ kill_switch => kill_switch'
          /\ (last_call'.op = "engine_update_price" /\ kill_switch /\ IsOk(result')) =>
               /\ positions' = EmptyMap
               /\ CountType(published', "TradeClosed") = OpenPositionsOf(positions)]_vars

\* C37 witness: the switch was tripped on the position limit and a later price
\* update has closed the position that was open
LimitTripsThenLiquidatesWitness ==
    /\ last_call.op = "engine_update_price"
    /\ IsOk(result)
    /\ kill_switch
    /\ kill_switch_reason = "Max open positions reached"
    /\ CountType(published, "TradeClosed") = max_open_positions
    /\ positions = EmptyMap
    /\ trades # <<>>

\* C39: while the kill-switch is active, every execute that reaches the
\* pre-trade check and every update_price that returns Ok publishes one more
\* RiskHalt carrying the unchanged reason, although the switch makes no
\* inactive-to-active transition in that call.
HaltRepublishedWhileActive ==
    [][kill_switch =>
         /\ kill_switch' /\ kill_switch_reason' = kill_switch_reason
         /\ (last_call'.op = "execute" /\ last_call'.pre_trade # "none") =>
               /\ last_call'.pre_trade = "kill_switch"
               /\ CountType(published', "RiskHalt") = 1
               /\ published'[1] = EvRiskHalt(kill_switch_reason)
         /\ (last_call'.op = "engine_update_price" /\ IsOk(result')) =>
               /\ CountType(published', "RiskHalt") = 1
               /\ published'[1] = EvRiskHalt(kill_switch_reason)]_vars

\* C39 witness: an execute found the kill-switch already active and published
\* RiskHalt again
HaltRepublishedWitness ==
    /\ last_call.op = "execute"
    /\ last_call.pre_trade = "kill_switch"
    /\ kill_switch
    /\ Len(published) = 2
    /\ published[1] = EvRiskHalt(kill_switch_reason)

\* C40: a gap rejection leaves the symbol's record as it was, so the record
\* moves only when an event is accepted; an event that follows a gap rejection
\* for its symbol is rejected again if its timestamp exceeds the stale
\* last_timestamp by more than gap_threshold_ms, and a symbol with a record is
\* accepted only by an event whose timestamp is at most last_timestamp +
\* gap_threshold_ms.
GapStaysUntilCaughtUp ==
    [][last_call'.op = "process" =>
         LET e == last_call'.event
             known == e.symbol \in DOMAIN last_seen
         IN  /\ result'.kind = "MarketData" =>
                  /\ known
                  /\ last_seen' = last_seen
                  /\ e.timestamp > last_seen[e.symbol].timestamp + gap_threshold_ms
             /\ last_call'.after_gap =>
                  /\ known
                  /\ last_call.event.timestamp >
                        last_seen[e.symbol].timestamp + gap_threshold_ms
                  /\ (e.timestamp > last_seen[e.symbol].timestamp + gap_threshold_ms =>
                        result'.kind = "MarketData" /\ last_seen' = last_seen)
             /\ (known /\ result' = Ok(<<e>>)) =>
                  e.timestamp <= last_seen[e.symbol].timestamp + gap_threshold_ms
             /\ last_seen' # last_seen =>
                  /\ result' = Ok(<<e>>)
                  /\ last_seen' = MapPut(last_seen, e.symbol,
                                         [timestamp |-> e.timestamp, price |-> e.price])]_vars

\* C40 witness: two gap rejections in a row for one symbol, the second for a
\* later event than the first, against the same stale record
GapStaysWitness ==
    /\ last_call.op = "process"
    /\ last_call.after_gap
    /\ result.kind = "MarketData"
    /\ last_call.event.timestamp >
          last_seen[last_call.symbol].timestamp + gap_threshold_ms + 1

\* thread a holds the engine mutex inside execute and waits at publish for
\* the subscribers lock, which thread b holds inside publish(PriceUpdated)
\* while its handler waits for the engine mutex
LockCycle(a, b) ==
    /\ a # b
    /\ execution_engine_ref.holder = a
    /\ threads[a].pc = "engine_publish"
    /\ subs_lock.holder = b
    /\ threads[b].pc = "dispatch"
    /\ threads[b].tag = "PriceUpdated"
    /\ threads[b].idx <= Len(subscribers["PriceUpdated"])
    /\ subscribers["PriceUpdated"][threads[b].idx].kind = "engine"

\* C35: when two threads use the wiring, the state in which one holds the
\* engine mutex inside execute and waits for the subscribers lock while the
\* other holds the subscribers lock and its PriceUpdated handler waits for
\* the engine mutex is a deadlock: no thread takes a step from it, and both
\* locks stay held as they are.
EngineBusDeadlock ==
    [][~(\E a, b \in Threads : LockCycle(a, b))]_vars

\* C35 witness: the deadlock is reached with execute waiting to publish its
\* OrderSubmitted
EngineBusDeadlockWitness ==
    \E a, b \in Threads :
        /\ LockCycle(a, b)
        /\ threads[a].tag = "OrderSubmitted"
        /\ threads[a].idx = 1

\* C31 (as claimed): the strategy accumulates the prices it observes: while
\* fewer than window_size prices have been seen signal returns Hold, and once
\* window_size prices have been seen it returns Buy for a price below their
\* mean whose relative deviation exceeds the threshold.
SignalFollowsWindow ==
    [][last_call'.op = "signal" =>
         LET window == last_call'.observed
             price == last_call'.price
         IN  /\ Len(window) < window_size => result' = Ok("Hold")
             /\ (/\ Len(window) = window_size
                 /\ price < CalculateMean(window)[1]
                 /\ CalculateDeviation(price, CalculateMean(window)[1]) > threshold) =>
                   result' = Ok("Buy")]_vars

=============================================================================
